---- MODULE Spec2Model ----
(***************************************************************************)
(* Aeropendulum control server: the command state machine, the simulation  *)
(* tick (plant, PID, history, statistics) and the WebSocket fan-out.       *)
(*                                                                         *)
(* The repository holds the core twice: the monolithic Server (server.js)  *)
(* and the SystemController (controllers/SystemController.js) driven by    *)
(* the WebSocketManager.  The variable impl says which of the two a        *)
(* behaviour runs; it is chosen at construction and never changes.         *)
(*                                                                         *)
(* Numbers.  Angles and errors are whole degrees.  Time is in ms.          *)
(* pid.integral is kept in degree*ms, i.e. 1000 times the code's value, so *)
(* that integral += error * (dtMs / 1000) is exact in integers.  The gains *)
(* kp, ki, kd are kept in hundredths (1.2 -> 120).                         *)
(***************************************************************************)
EXTENDS Integers, Sequences, FiniteSets, TLC

VARIABLES
    impl,           \* "Server" | "SystemController"
    systemData,     \* this.systemData
    dataHistory,    \* this.dataHistory (angles, errors, times)
    now,            \* Date.now()
    lastUpdateTime, \* this.lastUpdateTime
    clients,        \* this.clients: the sockets in the registry
    readyState,     \* ws.readyState of every socket
    pending,        \* callers whose calibrate is waiting on its timer
    outbox,         \* what the last handler sent, per socket, in order
    result,         \* outcome of the last handler
    ticks,          \* executed ticks so far (bounds the exploration)
    clientInfo,     \* the clientInfo of every socket (isAlive, subscriptions)
    heartbeatInterval, \* TRUE while the heartbeat timer is set
    firstReceived,  \* type of the first message a registered socket was sent
    pidOutput       \* the PID output the last handler computed and reported, if it was a tick

vars == <<impl, systemData, dataHistory, now, lastUpdateTime, clients,
          readyState, pending, outbox, result, ticks, clientInfo,
          heartbeatInterval, firstReceived, pidOutput>>

(***************************************************************************)
(* Bounds of the exploration.                                              *)
(***************************************************************************)
MaxTicks == 1
MaxTicksHistory == 3
MaxTicksDrift == 11
MaxClock == 1
MaxPoints == 2
MaxTicksFanout == 2
MaxTicksRegistry == 1
MaxTicksCommands == 1

Sockets == {"c1", "c2"}
Api == "api"

(***************************************************************************)
(* Program constants.                                                      *)
(***************************************************************************)
AngleMin == -180
AngleMax == 180
DefaultReference == 45
IntegralLimit == 100
MsPerSecond == 1000
UpdateInterval == 1000
\* noise in [-1,1) + oscillation*0.1 in [-0.5,0.5] + disturbance in [-10,10)
MaxPerturbation == 11

Perturbations == {-MaxPerturbation, MaxPerturbation}

Max(a, b) == IF a >= b THEN a ELSE b
Min(a, b) == IF a <= b THEN a ELSE b
Abs(a) == IF a >= 0 THEN a ELSE -a

(***************************************************************************)
(* parseFloat on a string given as a sequence of characters: an optional   *)
(* sign, then the longest run of digits; NaN when there is no digit.       *)
(* Whatever follows the digits is ignored, as parseFloat does.             *)
(***************************************************************************)
Digits == <<"0", "1", "2", "3", "4", "5", "6", "7", "8", "9">>

IsDigit(ch) == \E i \in 1..10 : Digits[i] = ch
DigitVal(ch) == (CHOOSE i \in 1..10 : Digits[i] = ch) - 1

NaN == [nan |-> TRUE, n |-> 0]
Num(k) == [nan |-> FALSE, n |-> k]

RECURSIVE ParseDigits(_, _, _)
ParseDigits(s, i, acc) ==
    IF i > Len(s) \/ ~IsDigit(s[i]) THEN acc
    ELSE ParseDigits(s, i + 1, acc * 10 + DigitVal(s[i]))

parseFloat(s) ==
    LET neg == Len(s) >= 1 /\ s[1] = "-"
        first == IF neg THEN 2 ELSE 1
    IN  IF first > Len(s) \/ ~IsDigit(s[first]) THEN NaN
        ELSE LET m == ParseDigits(s, first, 0)
             IN  Num(IF neg THEN -m ELSE m)

\* The values clients send with a command.
RawValues == {
    <<>>,
    <<"a", "b", "c">>,
    <<"1", "8", "0">>,
    <<"-", "1", "8", "0">>,
    <<"1", "8", "1">>,
    <<"-", "1", "8", "1">> }

(***************************************************************************)
(* State after construction.                                               *)
(***************************************************************************)
InitialPid == [kp |-> 120, ki |-> 10, kd |-> 5, integral |-> 0, previousError |-> 0]

InitialStats ==
    [avgAngle |-> 0, stdAngle |-> 0, minAngle |-> 0, maxAngle |-> 0,
     uptime |-> 0, errorCount |-> 0]

InitialSystemData ==
    [currentAngle |-> 0, referenceAngle |-> DefaultReference, error |-> 0,
     isRunning |-> FALSE, isConnected |-> FALSE,
     pid |-> InitialPid, stats |-> InitialStats]

EmptyHistory == [angles |-> <<>>, errors |-> <<>>, times |-> <<>>]

StartTime == 0

(***************************************************************************)
(* PID memory and history helpers.                                         *)
(***************************************************************************)
resetIntegralOnly(pid) == [pid EXCEPT !.integral = 0]

resetPIDController(pid) == [pid EXCEPT !.integral = 0, !.previousError = 0]

clearHistoryKeepsTimes(h) == [h EXCEPT !.angles = <<>>, !.errors = <<>>]

clearHistory(h) == EmptyHistory

(***************************************************************************)
(* Outcome of a command: ok = it returned, ~ok = it threw.  A command that *)
(* throws has changed nothing by the time it throws.                       *)
(***************************************************************************)
Returned(s, h) == [ok |-> TRUE, sys |-> s, hist |-> h]
Threw(s, h) == [ok |-> FALSE, sys |-> s, hist |-> h]

(***************************************************************************)
(* SystemController: the command handlers.                                 *)
(***************************************************************************)
startSystemNeverRejects(s) == FALSE

startSystemRejects(s) == s.isRunning

startSystem(s, h) ==
    IF startSystemRejects(s) THEN Threw(s, h)
    ELSE Returned([s EXCEPT !.isRunning = TRUE, !.isConnected = TRUE,
                            !.pid = resetPIDController(s.pid)], h)

stopSystemNeverRejects(s) == FALSE

stopSystemRejects(s) == ~s.isRunning

stopSystem(s, h) ==
    IF stopSystemRejects(s) THEN Threw(s, h)
    ELSE Returned([s EXCEPT !.isRunning = FALSE], h)

emergencyStopKeepsLink(s, h) ==
    Returned([s EXCEPT !.isRunning = FALSE, !.pid = resetPIDController(s.pid)], h)

emergencyStopOnlyUnlinks(s, h) ==
    Returned([s EXCEPT !.isConnected = FALSE, !.pid = resetPIDController(s.pid)], h)

emergencyStop(s, h) ==
    Returned([s EXCEPT !.isRunning = FALSE, !.isConnected = FALSE,
                       !.pid = resetPIDController(s.pid)], h)

angleRejectedAtBounds(a) == a.nan \/ a.n <= AngleMin \/ a.n >= AngleMax

\* isNaN(angle) || angle < -180 || angle > 180
angleRejected(a) == a.nan \/ a.n < AngleMin \/ a.n > AngleMax

setTargetAngleKeepsReference(s, h, a) ==
    IF angleRejected(a) THEN Threw(s, h)
    ELSE Returned([s EXCEPT !.pid = resetPIDController(s.pid)], h)

setTargetAngle(s, h, a) ==
    IF angleRejected(a) THEN Threw(s, h)
    ELSE Returned([s EXCEPT !.referenceAngle = a.n,
                            !.pid = resetPIDController(s.pid)], h)

resetSystemClearsStats(s, h) ==
    Returned([s EXCEPT !.isRunning = FALSE, !.currentAngle = 0,
                       !.referenceAngle = DefaultReference, !.error = 0,
                       !.pid = resetPIDController(s.pid),
                       !.stats = InitialStats],
             clearHistory(h))

resetSystem(s, h) ==
    Returned([s EXCEPT !.isRunning = FALSE, !.currentAngle = 0,
                       !.referenceAngle = DefaultReference, !.error = 0,
                       !.pid = resetPIDController(s.pid)],
             clearHistory(h))

calibrateSystemAlsoStarts(s) == [s EXCEPT !.isConnected = TRUE, !.isRunning = TRUE]

\* What calibrateSystem does once its timer has fired.
calibrateSystem(s) == [s EXCEPT !.isConnected = TRUE]

Commands ==
    {"startSystem", "stopSystem", "emergencyStop", "setTargetAngle",
     "resetSystem", "calibrate", "setPID", "bogus"}

\* SystemController.executeCommand, calibrate apart (it is asynchronous).
ControllerExecuteCommand(s, h, command, value) ==
    CASE command = "startSystem" -> startSystem(s, h)
      [] command = "stopSystem" -> stopSystem(s, h)
      [] command = "emergencyStop" -> emergencyStop(s, h)
      [] command = "setTargetAngle" -> setTargetAngle(s, h, parseFloat(value))
      [] command = "resetSystem" -> resetSystem(s, h)
      [] OTHER -> Threw(s, h)

(***************************************************************************)
(* Server.executeCommand: the same switch written inline; it has no        *)
(* calibrate case and its resetSystem does not touch error.                *)
(***************************************************************************)
ServerExecuteCommand(s, h, command, value) ==
    CASE command = "startSystem" ->
            IF s.isRunning THEN Threw(s, h)
            ELSE Returned([s EXCEPT !.isRunning = TRUE, !.isConnected = TRUE,
                                    !.pid = resetPIDController(s.pid)], h)
      [] command = "stopSystem" ->
            IF ~s.isRunning THEN Threw(s, h)
            ELSE Returned([s EXCEPT !.isRunning = FALSE], h)
      [] command = "emergencyStop" ->
            Returned([s EXCEPT !.isRunning = FALSE, !.isConnected = FALSE,
                               !.pid = resetPIDController(s.pid)], h)
      [] command = "setTargetAngle" ->
            LET angle == parseFloat(value)
            IN  IF angleRejected(angle) THEN Threw(s, h)
                ELSE Returned([s EXCEPT !.referenceAngle = angle.n,
                                        !.pid = resetPIDController(s.pid)], h)
      [] command = "resetSystem" ->
            Returned([s EXCEPT !.isRunning = FALSE, !.currentAngle = 0,
                               !.referenceAngle = DefaultReference,
                               !.pid = resetPIDController(s.pid)],
                     clearHistory(h))
      [] OTHER -> Threw(s, h)

executeCommand(i, s, h, command, value) ==
    IF i = "Server" THEN ServerExecuteCommand(s, h, command, value)
    ELSE ControllerExecuteCommand(s, h, command, value)


(***************************************************************************)
(* updatePIDParameters / PUT /api/pid.  The request body is a function     *)
(* from keys to raw values; only kp, ki, kd with a parsed value >= 0 are   *)
(* kept.  A parsed gain g is stored as 100 * g.                            *)
(***************************************************************************)
validParams == {"kp", "ki", "kd"}

PidBodies == {
    [k \in {"kp"} |-> <<"2">>],
    [k \in {"ki"} |-> <<"-", "1">>],
    [k \in {"kp", "kd"} |-> IF k = "kp" THEN <<"2">> ELSE <<"x">>],
    [k \in {"foo"} |-> <<"1">>] }

gainAcceptedAnyNumber(v) == ~v.nan

gainAccepted(v) == ~v.nan /\ v.n >= 0

pidUpdates(pidParams) ==
    {k \in DOMAIN pidParams \cap validParams : gainAccepted(parseFloat(pidParams[k]))}

mergePid(pid, pidParams) ==
    [f \in DOMAIN pid |->
        IF f \in pidUpdates(pidParams) THEN 100 * parseFloat(pidParams[f]).n
        ELSE pid[f]]

updatePIDParameters(s, h, pidParams) ==
    IF pidUpdates(pidParams) = {} THEN Threw(s, h)
    ELSE Returned([s EXCEPT !.pid = resetPIDController(mergePid(s.pid, pidParams))], h)

(***************************************************************************)
(* The tick: plant, error, PID, history, statistics.                       *)
(***************************************************************************)
\* error * -0.1, rounded toward zero
errorCorrection(e) == IF e >= 0 THEN -(e \div 10) ELSE (-e) \div 10

clampAngleMissing(x) == x

\* Math.max(-180, Math.min(180, x))
clampAngle(x) == Max(AngleMin, Min(AngleMax, x))

simulateSystemBehavior(s, perturbation) ==
    [s EXCEPT !.currentAngle =
        clampAngle(s.currentAngle + errorCorrection(s.error) + perturbation)]

computeErrorStale(s) == s

computeError(s) == [s EXCEPT !.error = s.currentAngle - s.referenceAngle]

clampIntegralMissing(x) == x

\* Math.max(-100, Math.min(100, x)), on the integral kept in degree*ms
clampIntegral(x) ==
    Max(-IntegralLimit * MsPerSecond, Min(IntegralLimit * MsPerSecond, x))

\* deltaTime is given in ms
applyPIDControl(s, deltaTime) ==
    [s EXCEPT !.pid.integral = clampIntegral(s.pid.integral + s.error * deltaTime),
              !.pid.previousError = s.error]

derivativeOverOneSecond(error, previousError, deltaTime) ==
    IF deltaTime > 0
    THEN ((error - previousError) * MsPerSecond * MsPerSecond) \div deltaTime
    ELSE (error - previousError) * MsPerSecond

\* deltaTime > 0 ? (error - previousError) / deltaTime : 0, in thousandths of
\* a degree per second, rounded down; deltaTime is given in ms
derivative(error, previousError, deltaTime) ==
    IF deltaTime > 0
    THEN ((error - previousError) * MsPerSecond * MsPerSecond) \div deltaTime
    ELSE 0

\* The pidOutput applyPIDControl returns, from the state it is called in: it
\* reads the clamped integral and the previousError of the tick before.
\* Outputs are kept in units of 1/100000 (gains in hundredths, terms in
\* thousandths).
applyPIDControlOutput(s, deltaTime) ==
    s.pid.kp * s.error * MsPerSecond
    + s.pid.ki * clampIntegral(s.pid.integral + s.error * deltaTime)
    + s.pid.kd * derivative(s.error, s.pid.previousError, deltaTime)

\* calculatePIDOutput, from the state it is called in
calculatePIDOutput(s, deltaTime) ==
    LET proportional == s.pid.kp * s.error * MsPerSecond
        integral == s.pid.ki * s.pid.integral
        derivativeTerm == s.pid.kd * derivative(s.error, s.pid.previousError, deltaTime)
    IN  [proportional |-> proportional, integral |-> integral,
         derivative |-> derivativeTerm,
         total |-> proportional + integral + derivativeTerm]

\* No pidOutput: Server's tick reports none, and none is reported before the
\* first tick.
NoPidOutput == [proportional |-> 0, integral |-> 0, derivative |-> 0, total |-> 0]

\* What a handler that is not an executed tick leaves as the tick's output.
NoTickOutput == [computed |-> 0, reported |-> NoPidOutput]

trimHistoryForgetsTimes(h) ==
    IF Len(h.angles) > MaxPoints
    THEN [angles |-> Tail(h.angles), errors |-> Tail(h.errors), times |-> h.times]
    ELSE h

RECURSIVE trimHistory(_)
trimHistory(h) ==
    IF Len(h.angles) > MaxPoints
    THEN trimHistory([angles |-> Tail(h.angles), errors |-> Tail(h.errors),
                      times |-> Tail(h.times)])
    ELSE h

updateHistory(h, s, t) ==
    trimHistory([angles |-> Append(h.angles, s.currentAngle),
                 errors |-> Append(h.errors, s.error),
                 times |-> Append(h.times, t)])

RECURSIVE SeqSum(_)
SeqSum(q) == IF q = <<>> THEN 0 ELSE Head(q) + SeqSum(Tail(q))

SeqMin(q) == CHOOSE x \in {q[i] : i \in 1..Len(q)} : \A j \in 1..Len(q) : x <= q[j]
SeqMax(q) == CHOOSE x \in {q[i] : i \in 1..Len(q)} : \A j \in 1..Len(q) : x >= q[j]

\* Math.sqrt, rounded down
Sqrt(x) == CHOOSE r \in 0..(x + 1) : r * r <= x /\ (r + 1) * (r + 1) > x

avgOfCapacity(q) == SeqSum(q) \div MaxPoints

avgOf(q) == SeqSum(q) \div Len(q)
varianceOf(q) == SeqSum([i \in 1..Len(q) |-> (q[i] - avgOf(q)) * (q[i] - avgOf(q))]) \div Len(q)

\* Server.updateStatistics
ServerUpdateStatistics(s, h, t) ==
    IF Len(h.angles) = 0 THEN s
    ELSE [s EXCEPT !.stats.avgAngle = avgOf(h.angles),
                   !.stats.minAngle = SeqMin(h.angles),
                   !.stats.maxAngle = SeqMax(h.angles),
                   !.stats.stdAngle = Sqrt(varianceOf(h.angles)),
                   !.stats.uptime = t - StartTime]

\* SystemController.updateStatistics: also avgError and maxError
ControllerUpdateStatistics(s, h, t) ==
    IF Len(h.angles) = 0 THEN s
    ELSE LET absErrors == [i \in 1..Len(h.errors) |-> Abs(h.errors[i])]
         IN  [s EXCEPT !.stats =
                [avgAngle |-> avgOf(h.angles),
                 stdAngle |-> Sqrt(varianceOf(h.angles)),
                 minAngle |-> SeqMin(h.angles),
                 maxAngle |-> SeqMax(h.angles),
                 uptime |-> t - StartTime,
                 errorCount |-> s.stats.errorCount,
                 avgError |-> avgOf(absErrors),
                 maxError |-> SeqMax(absErrors)]]

updateStatisticsSkipped(i, s, h, t) == s

updateStatistics(i, s, h, t) ==
    IF i = "Server" THEN ServerUpdateStatistics(s, h, t)
    ELSE ControllerUpdateStatistics(s, h, t)

\* The state part of one executed tick, up to and including the PID step.
tickSystem(s, perturbation, deltaTime) ==
    applyPIDControl(computeError(simulateSystemBehavior(s, perturbation)), deltaTime)


(***************************************************************************)
(* Messages and delivery.                                                  *)
(***************************************************************************)
Msg(type, success, body) == [type |-> type, success |-> success, body |-> body]

EmptyBox == [c \in Sockets |-> <<>>]

DeliverAhead(box, targets, m) ==
    [c \in Sockets |-> IF c \in targets THEN <<m>> \o box[c] ELSE box[c]]

\* ws.send on every socket of targets
Deliver(box, targets, m) ==
    [c \in Sockets |-> IF c \in targets THEN Append(box[c], m) ELSE box[c]]

sendToClientWhenNotOpen(box, rs, c, m) ==
    Deliver(box, IF c \in Sockets /\ rs[c] # "OPEN" THEN {c} ELSE {}, m)

\* sendToClient: only when ws.readyState === WebSocket.OPEN
sendToClient(box, rs, c, m) ==
    Deliver(box, IF c \in Sockets /\ rs[c] = "OPEN" THEN {c} ELSE {}, m)

broadcastTargetsIgnoreState(reg, rs) == reg

\* The sockets a broadcast reaches: registered and open.
broadcastTargets(reg, rs) == {c \in reg : rs[c] = "OPEN"}

broadcastStopsAfterFirst(box, reg, rs, m) ==
    Deliver(box, IF broadcastTargets(reg, rs) = {} THEN {}
                 ELSE {CHOOSE c \in broadcastTargets(reg, rs) : TRUE}, m)

broadcast(box, reg, rs, m) == Deliver(box, broadcastTargets(reg, rs), m)

\* getSystemStatus: the state with uptime refreshed and dataPoints added
getSystemStatus(s, h, t) ==
    [s EXCEPT !.stats =
        [k \in DOMAIN s.stats \cup {"dataPoints"} |->
            IF k = "dataPoints" THEN Len(h.angles)
            ELSE IF k = "uptime" THEN t - StartTime
            ELSE s.stats[k]]]

\* the snapshot a systemUpdate carries
systemUpdateBody(i, s, h, t) ==
    IF i = "Server" THEN s ELSE getSystemStatus(s, h, t)

dataUpdateBody(s) ==
    [currentAngle |-> s.currentAngle, referenceAngle |-> s.referenceAngle,
     error |-> s.error, stats |-> s.stats, isRunning |-> s.isRunning]

Outcome(op, ok) == [op |-> op, ok |-> ok]

\* The clientInfo handleNewConnection builds: alive, no subscriptions property.
NewClientInfoNotAlive == [isAlive |-> FALSE, subscribed |-> FALSE, subscriptions |-> {}]

NewClientInfo == [isAlive |-> TRUE, subscribed |-> FALSE, subscriptions |-> {}]

\* The first message type each registered socket has been sent, given what
\* the handler that just ran has sent (box) and the registry it leaves (reg).
noteFirst(first, reg, box) ==
    [c \in Sockets |->
        IF c \notin reg THEN "none"
        ELSE IF first[c] = "none" /\ box[c] # <<>> THEN Head(box[c]).type
        ELSE first[c]]

(***************************************************************************)
(* Initial state.                                                          *)
(***************************************************************************)
Init ==
    /\ impl \in {"Server", "SystemController"}
    /\ systemData = InitialSystemData
    /\ dataHistory = EmptyHistory
    /\ now = StartTime
    /\ lastUpdateTime = StartTime
    /\ clients = {}
    /\ readyState = [c \in Sockets |-> "CLOSED"]
    /\ pending = {}
    /\ outbox = EmptyBox
    /\ result = Outcome("construct", TRUE)
    /\ ticks = 0
    /\ clientInfo = [c \in Sockets |-> NewClientInfo]
    /\ heartbeatInterval = FALSE
    /\ firstReceived = [c \in Sockets |-> "none"]
    /\ pidOutput = NoTickOutput

(***************************************************************************)
(* Connections.                                                            *)
(***************************************************************************)
\* handleNewConnection: register, then unicast welcome
Connect(c) ==
    /\ c \notin clients
    /\ readyState[c] = "CLOSED"
    /\ c \notin pending
    /\ clients' = clients \cup {c}
    /\ readyState' = [readyState EXCEPT ![c] = "OPEN"]
    /\ outbox' = sendToClient(EmptyBox, readyState', c, Msg("welcome", TRUE, systemData))
    /\ result' = Outcome("connect", TRUE)
    /\ UNCHANGED <<impl, systemData, dataHistory, now, lastUpdateTime, pending, ticks>>
    /\ clientInfo' = [clientInfo EXCEPT ![c] = NewClientInfo]
    /\ UNCHANGED heartbeatInterval
    /\ firstReceived' = noteFirst(firstReceived, clients', outbox')
    /\ pidOutput' = NoTickOutput

\* the transport starts closing: the socket is no longer OPEN, still registered
BeginClose(c) ==
    /\ c \in clients
    /\ readyState[c] = "OPEN"
    /\ readyState' = [readyState EXCEPT ![c] = "CLOSING"]
    /\ UNCHANGED <<impl, systemData, dataHistory, now, lastUpdateTime, clients,
                   pending, outbox, result, ticks>>
    /\ UNCHANGED <<clientInfo, heartbeatInterval>>
    /\ UNCHANGED firstReceived
    /\ UNCHANGED pidOutput

\* ws 'close' event: this.clients.delete(ws); the socket and its clientInfo
\* are gone
CloseCancelsPending(c) ==
    /\ readyState[c] # "CLOSED"
    /\ clients' = clients \ {c}
    /\ readyState' = [readyState EXCEPT ![c] = "CLOSED"]
    /\ pending' = pending \ {c}
    /\ outbox' = EmptyBox
    /\ result' = Outcome("close", TRUE)
    /\ UNCHANGED <<impl, systemData, dataHistory, now, lastUpdateTime, ticks>>
    /\ clientInfo' = [clientInfo EXCEPT ![c] = NewClientInfo]
    /\ UNCHANGED heartbeatInterval
    /\ firstReceived' = noteFirst(firstReceived, clients', outbox')
    /\ pidOutput' = NoTickOutput

Close(c) ==
    /\ readyState[c] # "CLOSED"
    /\ clients' = clients \ {c}
    /\ readyState' = [readyState EXCEPT ![c] = "CLOSED"]
    /\ outbox' = EmptyBox
    /\ result' = Outcome("close", TRUE)
    /\ UNCHANGED <<impl, systemData, dataHistory, now, lastUpdateTime, pending, ticks>>
    /\ clientInfo' = [clientInfo EXCEPT ![c] = NewClientInfo]
    /\ UNCHANGED heartbeatInterval
    /\ firstReceived' = noteFirst(firstReceived, clients', outbox')
    /\ pidOutput' = NoTickOutput

(***************************************************************************)
(* Commands.                                                               *)
(***************************************************************************)
IsAsyncNever(command) == FALSE

IsAsync(command) == impl = "SystemController" /\ command = "calibrate"

\* calibrate: nothing happens until the timer fires
IssueCalibrate(caller) ==
    /\ caller \notin pending
    /\ pending' = pending \cup {caller}
    /\ outbox' = EmptyBox
    /\ result' = Outcome("calibrateIssued", TRUE)
    /\ UNCHANGED <<impl, systemData, dataHistory, now, lastUpdateTime, clients,
                   readyState, ticks>>
    /\ UNCHANGED <<clientInfo, heartbeatInterval>>
    /\ firstReceived' = noteFirst(firstReceived, clients', outbox')
    /\ pidOutput' = NoTickOutput

\* handleClientMessage / handleCommand for {type: 'command'}
WsCommand(c, command, value) ==
    /\ c \in clients
    /\ readyState[c] = "OPEN"
    /\ IF IsAsync(command) THEN IssueCalibrate(c)
       ELSE \E r \in {executeCommand(impl, systemData, dataHistory, command, value)} :
            LET response == Msg("commandResponse", r.ok, command)
                update == Msg("systemUpdate", TRUE,
                              systemUpdateBody(impl, r.sys, r.hist, now))
                answered == sendToClient(EmptyBox, readyState, c, response)
            IN  /\ systemData' = r.sys
                /\ dataHistory' = r.hist
                /\ outbox' = IF r.ok THEN broadcast(answered, clients, readyState, update)
                             ELSE answered
                /\ result' = Outcome(command, r.ok)
                /\ UNCHANGED <<impl, now, lastUpdateTime, clients, readyState,
                               pending, ticks>>
                /\ UNCHANGED <<clientInfo, heartbeatInterval>>
                /\ firstReceived' = noteFirst(firstReceived, clients', outbox')
                /\ pidOutput' = NoTickOutput

\* POST /api/command (Server) or a direct executeCommand call (SystemController)
ApiCommand(command, value) ==
    IF IsAsync(command) THEN IssueCalibrate(Api)
    ELSE \E r \in {executeCommand(impl, systemData, dataHistory, command, value)} :
             /\ systemData' = r.sys
             /\ dataHistory' = r.hist
             /\ outbox' = IF r.ok /\ impl = "Server"
                          THEN broadcast(EmptyBox, clients, readyState,
                                         Msg("commandExecuted", TRUE, command))
                          ELSE EmptyBox
             /\ result' = Outcome(command, r.ok)
             /\ UNCHANGED <<impl, now, lastUpdateTime, clients, readyState,
                            pending, ticks>>
             /\ UNCHANGED <<clientInfo, heartbeatInterval>>
             /\ firstReceived' = noteFirst(firstReceived, clients', outbox')
             /\ pidOutput' = NoTickOutput

\* the calibration timer fires: calibrateSystem resumes, then handleCommand
\* answers the caller and broadcasts
CalibrateDone(caller) ==
    /\ caller \in pending
    /\ pending' = pending \ {caller}
    /\ systemData' = calibrateSystem(systemData)
    /\ outbox' =
        IF caller \in Sockets
        THEN broadcast(sendToClient(EmptyBox, readyState, caller,
                                    Msg("commandResponse", TRUE, "calibrate")),
                       clients, readyState,
                       Msg("systemUpdate", TRUE,
                           systemUpdateBody(impl, systemData', dataHistory, now)))
        ELSE EmptyBox
    /\ result' = Outcome("calibrate", TRUE)
    /\ UNCHANGED <<impl, dataHistory, now, lastUpdateTime, clients, readyState, ticks>>
    /\ UNCHANGED <<clientInfo, heartbeatInterval>>
    /\ firstReceived' = noteFirst(firstReceived, clients', outbox')
    /\ pidOutput' = NoTickOutput

\* PUT /api/pid (Server) or updatePIDParameters (SystemController)
UpdatePID(pidParams) ==
    \E r \in {updatePIDParameters(systemData, dataHistory, pidParams)} :
        /\ systemData' = r.sys
        /\ outbox' = IF r.ok /\ impl = "Server"
                     THEN broadcast(EmptyBox, clients, readyState,
                                    Msg("pidUpdated", TRUE, r.sys.pid))
                     ELSE EmptyBox
        /\ result' = Outcome("updatePID", r.ok)
        /\ UNCHANGED <<impl, dataHistory, now, lastUpdateTime, clients, readyState,
                       pending, ticks>>
        /\ UNCHANGED <<clientInfo, heartbeatInterval>>
        /\ firstReceived' = noteFirst(firstReceived, clients', outbox')
        /\ pidOutput' = NoTickOutput

(***************************************************************************)
(* The clock and the simulation tick.                                      *)
(***************************************************************************)
AdvanceClock(maxClock) ==
    /\ now < maxClock * UpdateInterval
    /\ now' = now + UpdateInterval
    /\ UNCHANGED <<impl, systemData, dataHistory, lastUpdateTime, clients,
                   readyState, pending, outbox, result, ticks>>
    /\ UNCHANGED <<clientInfo, heartbeatInterval>>
    /\ UNCHANGED firstReceived
    /\ UNCHANGED pidOutput

tickNeverSkipped(s) == FALSE

\* if (!this.systemData.isRunning) return;
tickSkipped(s) == ~s.isRunning

\* the setInterval callback of startSimulation / updateSimulation
TickSkippedRestamps(perturbation, maxTicks) ==
    IF tickSkipped(systemData)
    THEN /\ outbox' = EmptyBox
         /\ result' = Outcome("tickSkipped", FALSE)
         /\ lastUpdateTime' = now
         /\ UNCHANGED <<impl, systemData, dataHistory, now, clients,
                        readyState, pending, ticks>>
         /\ UNCHANGED <<clientInfo, heartbeatInterval>>
         /\ firstReceived' = noteFirst(firstReceived, clients', outbox')
         /\ pidOutput' = NoTickOutput
    ELSE /\ ticks < maxTicks
         /\ ticks' = ticks + 1
         /\ lastUpdateTime' = now
         /\ \E s \in {tickSystem(systemData, perturbation, now - lastUpdateTime)} :
                /\ dataHistory' = updateHistory(dataHistory, s, now)
                /\ systemData' = updateStatistics(impl, s, dataHistory', now)
         /\ outbox' = IF impl = "Server"
                      THEN broadcast(EmptyBox, clients, readyState,
                                     Msg("dataUpdate", TRUE, dataUpdateBody(systemData')))
                      ELSE EmptyBox
         /\ result' = Outcome("tick", TRUE)
         /\ UNCHANGED <<impl, now, clients, readyState, pending>>
         /\ UNCHANGED <<clientInfo, heartbeatInterval>>
         /\ firstReceived' = noteFirst(firstReceived, clients', outbox')
         /\ pidOutput' =
               [computed |->
                   applyPIDControlOutput(
                       computeError(simulateSystemBehavior(systemData, perturbation)),
                       now - lastUpdateTime),
                reported |->
                   IF impl = "SystemController"
                   THEN calculatePIDOutput(systemData', now - lastUpdateTime)
                   ELSE NoPidOutput]

Tick(perturbation, maxTicks) ==
    IF tickSkipped(systemData)
    THEN /\ outbox' = EmptyBox
         /\ result' = Outcome("tickSkipped", FALSE)
         /\ UNCHANGED <<impl, systemData, dataHistory, now, lastUpdateTime, clients,
                        readyState, pending, ticks>>
         /\ UNCHANGED <<clientInfo, heartbeatInterval>>
         /\ firstReceived' = noteFirst(firstReceived, clients', outbox')
         /\ pidOutput' = NoTickOutput
    ELSE /\ ticks < maxTicks
         /\ ticks' = ticks + 1
         /\ lastUpdateTime' = now
         /\ \E s \in {tickSystem(systemData, perturbation, now - lastUpdateTime)} :
                /\ dataHistory' = updateHistory(dataHistory, s, now)
                /\ systemData' = updateStatistics(impl, s, dataHistory', now)
         /\ outbox' = IF impl = "Server"
                      THEN broadcast(EmptyBox, clients, readyState,
                                     Msg("dataUpdate", TRUE, dataUpdateBody(systemData')))
                      ELSE EmptyBox
         /\ result' = Outcome("tick", TRUE)
         /\ UNCHANGED <<impl, now, clients, readyState, pending>>
         /\ UNCHANGED <<clientInfo, heartbeatInterval>>
         /\ firstReceived' = noteFirst(firstReceived, clients', outbox')
         /\ pidOutput' =
               [computed |->
                   applyPIDControlOutput(
                       computeError(simulateSystemBehavior(systemData, perturbation)),
                       now - lastUpdateTime),
                reported |->
                   IF impl = "SystemController"
                   THEN calculatePIDOutput(systemData', now - lastUpdateTime)
                   ELSE NoPidOutput]

(***************************************************************************)
(* The WebSocketManager: channel subscriptions, broadcast with its result, *)
(* the heartbeat and shutdown.                                             *)
(***************************************************************************)
\* the channel names clients subscribe to
Channels == {"telemetry"}

\* broadcast(data, channel = null)
NoChannel == "null"

\* NOT (channel && clientInfo.subscriptions && !clientInfo.subscriptions.has(channel))
passesFilter(info, channel) ==
    ~(channel # NoChannel /\ info.subscribed /\ channel \notin info.subscriptions)

broadcastSentAbortsOnThrow(reg, rs, info, channel, throwing) ==
    IF \E c \in reg : rs[c] = "OPEN" /\ c \in throwing THEN {}
    ELSE {c \in reg : passesFilter(info[c], channel) /\ rs[c] = "OPEN"}

\* the clients whose ws.send ran and did not throw: sentCount++
broadcastSent(reg, rs, info, channel, throwing) ==
    {c \in reg : passesFilter(info[c], channel) /\ rs[c] = "OPEN" /\ c \notin throwing}

\* the clients that are not OPEN or whose ws.send threw: failedCount++
broadcastFailed(reg, rs, info, channel, throwing) ==
    {c \in reg : passesFilter(info[c], channel) /\ (rs[c] # "OPEN" \/ c \in throwing)}

\* WebSocketManager.broadcast called with a message for a channel (or none);
\* throwing are the sockets whose ws.send raises
BroadcastCall(channel, throwing) ==
    /\ impl = "SystemController"
    /\ LET sent == broadcastSent(clients, readyState, clientInfo, channel, throwing)
           failed == broadcastFailed(clients, readyState, clientInfo, channel, throwing)
       IN  /\ outbox' = Deliver(EmptyBox, sent, Msg("notice", TRUE, channel))
           /\ result' = [op |-> "broadcast", ok |-> TRUE,
                         sent |-> Cardinality(sent), failed |-> Cardinality(failed)]
    /\ UNCHANGED <<impl, systemData, dataHistory, now, lastUpdateTime, clients,
                   readyState, pending, ticks, clientInfo, heartbeatInterval>>
    /\ firstReceived' = noteFirst(firstReceived, clients', outbox')
    /\ pidOutput' = NoTickOutput

\* handleSubscription for {type: 'subscribe', channels}
Subscribe(c, channels) ==
    /\ impl = "SystemController"
    /\ c \in clients
    /\ readyState[c] = "OPEN"
    /\ clientInfo' = [clientInfo EXCEPT ![c].subscribed = TRUE,
                                        ![c].subscriptions = @ \cup channels]
    /\ outbox' = sendToClient(EmptyBox, readyState, c,
                              Msg("subscriptionConfirmed", TRUE, clientInfo'[c].subscriptions))
    /\ result' = Outcome("subscribe", TRUE)
    /\ UNCHANGED <<impl, systemData, dataHistory, now, lastUpdateTime, clients,
                   readyState, pending, ticks, heartbeatInterval>>
    /\ firstReceived' = noteFirst(firstReceived, clients', outbox')
    /\ pidOutput' = NoTickOutput

\* handleUnsubscription for {type: 'unsubscribe', channels}
Unsubscribe(c, channels) ==
    /\ impl = "SystemController"
    /\ c \in clients
    /\ readyState[c] = "OPEN"
    /\ clientInfo' = [clientInfo EXCEPT ![c].subscriptions = @ \ channels]
    /\ outbox' = sendToClient(EmptyBox, readyState, c,
                              Msg("unsubscriptionConfirmed", TRUE, clientInfo'[c].subscriptions))
    /\ result' = Outcome("unsubscribe", TRUE)
    /\ UNCHANGED <<impl, systemData, dataHistory, now, lastUpdateTime, clients,
                   readyState, pending, ticks, heartbeatInterval>>
    /\ firstReceived' = noteFirst(firstReceived, clients', outbox')
    /\ pidOutput' = NoTickOutput

\* ws 'pong' event, or a {type: 'heartbeat'} message: clientInfo.isAlive = true
Pong(c) ==
    /\ impl = "SystemController"
    /\ c \in clients
    /\ readyState[c] = "OPEN"
    /\ clientInfo' = [clientInfo EXCEPT ![c].isAlive = TRUE]
    /\ outbox' = EmptyBox
    /\ result' = Outcome("pong", TRUE)
    /\ UNCHANGED <<impl, systemData, dataHistory, now, lastUpdateTime, clients,
                   readyState, pending, ticks, heartbeatInterval>>
    /\ firstReceived' = noteFirst(firstReceived, clients', outbox')
    /\ pidOutput' = NoTickOutput

\* startHeartbeat: setInterval(sweep, 30000)
StartHeartbeat ==
    /\ impl = "SystemController"
    /\ ~heartbeatInterval
    /\ heartbeatInterval' = TRUE
    /\ outbox' = EmptyBox
    /\ result' = Outcome("startHeartbeat", TRUE)
    /\ UNCHANGED <<impl, systemData, dataHistory, now, lastUpdateTime, clients,
                   readyState, pending, ticks, clientInfo>>
    /\ firstReceived' = noteFirst(firstReceived, clients', outbox')
    /\ pidOutput' = NoTickOutput

sweepTerminatesNobody(reg, info) == {}

sweepTerminatesEveryone(reg, info) == reg

\* the clients the sweep terminates: clientInfo.isAlive === false
sweepTerminates(reg, info) == {c \in reg : ~info[c].isAlive}

\* the heartbeat callback: ws.terminate() the silent clients, clear the flag
\* of the others (and ping them)
Sweep ==
    /\ heartbeatInterval
    /\ readyState' = [c \in Sockets |->
                         IF c \in sweepTerminates(clients, clientInfo)
                         THEN "CLOSING" ELSE readyState[c]]
    /\ clientInfo' = [c \in Sockets |->
                         IF c \in clients
                         THEN [clientInfo[c] EXCEPT !.isAlive = FALSE]
                         ELSE clientInfo[c]]
    /\ outbox' = EmptyBox
    /\ result' = Outcome("sweep", TRUE)
    /\ UNCHANGED <<impl, systemData, dataHistory, now, lastUpdateTime, clients,
                   pending, ticks, heartbeatInterval>>
    /\ firstReceived' = noteFirst(firstReceived, clients', outbox')
    /\ pidOutput' = NoTickOutput

stopHeartbeatKeepsTimer(timer) == timer

\* stopHeartbeat: clearInterval
stopHeartbeat(timer) == FALSE

\* closeAll: stopHeartbeat, ws.close() every open socket, clients.clear()
CloseAll ==
    /\ impl = "SystemController"
    /\ heartbeatInterval' = stopHeartbeat(heartbeatInterval)
    /\ readyState' = [c \in Sockets |->
                         IF c \in clients /\ readyState[c] = "OPEN"
                         THEN "CLOSING" ELSE readyState[c]]
    /\ clients' = {}
    /\ outbox' = EmptyBox
    /\ result' = Outcome("closeAll", TRUE)
    /\ UNCHANGED <<impl, systemData, dataHistory, now, lastUpdateTime, pending,
                   ticks, clientInfo>>
    /\ firstReceived' = noteFirst(firstReceived, clients', outbox')
    /\ pidOutput' = NoTickOutput

\* only setTargetAngle reads its value
ValuesFor(command) == IF command = "setTargetAngle" THEN RawValues ELSE {<<>>}

(***************************************************************************)
(* Spec: the command state machine and the tick, driven through the REST   *)
(* layer and direct calls, with no socket connected.                       *)
(***************************************************************************)
Next ==
    \/ \E command \in Commands : \E value \in ValuesFor(command) :
          ApiCommand(command, value)
    \/ CalibrateDone(Api)
    \/ \E pidParams \in PidBodies : UpdatePID(pidParams)
    \/ AdvanceClock(MaxClock)
    \/ \E perturbation \in Perturbations : Tick(perturbation, MaxTicks)

Spec == Init /\ [][Next]_vars

(***************************************************************************)
(* SpecFanout: sockets connect, send commands and close while the tick     *)
(* runs.                                                                   *)
(***************************************************************************)
FanoutCommands == {"startSystem", "stopSystem", "resetSystem", "setTargetAngle"}

FanoutValues(command) ==
    IF command = "setTargetAngle" THEN {<<"1", "8", "0">>, <<"2", "0", "0">>} ELSE {<<>>}

NextFanout ==
    \/ \E c \in Sockets : Connect(c)
    \/ \E c \in Sockets : BeginClose(c)
    \/ \E c \in Sockets : Close(c)
    \/ \E c \in Sockets, command \in FanoutCommands :
          \E value \in FanoutValues(command) : WsCommand(c, command, value)
    \/ \E perturbation \in Perturbations : Tick(perturbation, MaxTicksFanout)

SpecFanout == Init /\ [][NextFanout]_vars

(***************************************************************************)
(* SpecHistory: enough ticks to fill the history and evict from it.        *)
(***************************************************************************)
HistoryCommands == {"startSystem", "stopSystem", "emergencyStop", "resetSystem"}

NextHistory ==
    \/ \E command \in HistoryCommands : ApiCommand(command, <<>>)
    \/ AdvanceClock(MaxClock)
    \/ \E perturbation \in Perturbations : Tick(perturbation, MaxTicksHistory)

SpecHistory == Init /\ [][NextHistory]_vars

(***************************************************************************)
(* SpecDrift: long runs in which the plant is pushed to the ends of its    *)
(* range.                                                                  *)
(***************************************************************************)
DriftTargets == {<<"1", "8", "0">>, <<"-", "1", "8", "0">>}

NextDrift ==
    \/ ApiCommand("startSystem", <<>>)
    \/ \E value \in DriftTargets : ApiCommand("setTargetAngle", value)
    \/ \E perturbation \in Perturbations : Tick(perturbation, MaxTicksDrift)

SpecDrift == Init /\ [][NextDrift]_vars

(***************************************************************************)
(* SpecRegistry: the client registry under connections, subscriptions,     *)
(* broadcasts, the heartbeat and shutdown, with commands and the tick      *)
(* changing the state the messages carry.                                  *)
(***************************************************************************)
RegistryCommands == {"startSystem", "stopSystem"}

ChannelLists == SUBSET Channels

NextRegistry ==
    \/ \E c \in Sockets : Connect(c)
    \/ \E c \in Sockets : BeginClose(c)
    \/ \E c \in Sockets : Close(c)
    \/ \E c \in Sockets, channels \in ChannelLists : Subscribe(c, channels)
    \/ \E c \in Sockets, channels \in ChannelLists : Unsubscribe(c, channels)
    \/ \E c \in Sockets : Pong(c)
    \/ StartHeartbeat
    \/ Sweep
    \/ CloseAll
    \/ \E channel \in Channels \cup {NoChannel}, throwing \in SUBSET Sockets :
          BroadcastCall(channel, throwing)
    \/ \E c \in Sockets, command \in RegistryCommands : WsCommand(c, command, <<>>)
    \/ \E perturbation \in Perturbations : Tick(perturbation, MaxTicksRegistry)

SpecRegistry == Init /\ [][NextRegistry]_vars

(***************************************************************************)
(* SpecHeartbeat: connections, the heartbeat and shutdown.  The heartbeat  *)
(* timer keeps firing while it is set, and a socket that is closing gets   *)
(* its close event.                                                        *)
(***************************************************************************)
NextHeartbeat ==
    \/ \E c \in Sockets : Connect(c)
    \/ \E c \in Sockets : Close(c)
    \/ \E c \in Sockets : Pong(c)
    \/ StartHeartbeat
    \/ Sweep
    \/ CloseAll
    \/ \E channel \in Channels \cup {NoChannel}, throwing \in SUBSET Sockets :
          BroadcastCall(channel, throwing)

\* the 'close' event of a socket that was terminated or asked to close
CloseEvent(c) == readyState[c] = "CLOSING" /\ Close(c)

SpecHeartbeat ==
    /\ Init
    /\ [][NextHeartbeat]_vars
    /\ WF_vars(Sweep)
    /\ \A c \in Sockets : WF_vars(CloseEvent(c))

(***************************************************************************)
(* SpecCommands: sockets send every command of the vocabulary, valid and   *)
(* invalid, while the tick runs.                                           *)
(***************************************************************************)
\* the values a socket sends with a command
WsValues(command) ==
    IF command = "setTargetAngle"
    THEN {<<"1", "8", "0">>, <<"1", "8", "1">>, <<"a", "b", "c">>}
    ELSE IF command = "setPID" THEN {[k \in {"kp"} |-> <<"2">>]}
    ELSE {<<>>}

NextCommands ==
    \/ \E c \in Sockets : Connect(c)
    \/ \E c \in Sockets : Close(c)
    \/ \E c \in Sockets, command \in Commands :
          \E value \in WsValues(command) : WsCommand(c, command, value)
    \/ \E c \in Sockets : CalibrateDone(c)
    \/ \E perturbation \in Perturbations : Tick(perturbation, MaxTicksCommands)

SpecCommands == Init /\ [][NextCommands]_vars

(***************************************************************************)
(* SpecGains: gain updates with bodies of every shape, between ticks.      *)
(***************************************************************************)
\* request bodies: valid, zero, negative, non-numeric, unknown and no fields
GainBodies == {
    [k \in {"kp"} |-> <<"2">>],
    [k \in {"kd"} |-> <<"0">>],
    [k \in {"ki"} |-> <<"-", "1">>],
    [k \in {"kp", "kd"} |-> IF k = "kp" THEN <<"3">> ELSE <<"x">>],
    [k \in {"ki", "foo"} |-> IF k = "ki" THEN <<"1">> ELSE <<"9">>],
    [k \in {"foo"} |-> <<"1">>],
    [k \in {"integral"} |-> <<"5">>],
    [k \in {} |-> <<>>] }

NextGains ==
    \/ \E pidParams \in GainBodies : UpdatePID(pidParams)
    \/ ApiCommand("startSystem", <<>>)
    \/ AdvanceClock(MaxClock)
    \/ \E perturbation \in Perturbations : Tick(perturbation, MaxTicks)

SpecGains == Init /\ [][NextGains]_vars

(***************************************************************************)
(* History queries: SystemController.getHistory behind                     *)
(* WebSocketManager.handleHistoryRequest, and the getHistory case of       *)
(* Server.handleClientMessage.  A field of the request is either absent or *)
(* a number; indices count from 0 as in the source.                        *)
(***************************************************************************)
MaxTicksQuery == 2
MaxClockQuery == 2
MaxLimit == 3

DefaultLimit == 100
ServerLimitCap == 1000

Absent == [given |-> FALSE, n |-> 0]
Given(n) == [given |-> TRUE, n |-> n]

\* A request field used as a condition: undefined and 0 are falsy.
Truthy(field) == field.given /\ field.n # 0

\* Array.prototype.findIndex: the first index whose element passes, or -1;
\* the callback is given as the set of the elements that pass.
findIndex(q, passing) ==
    IF \E i \in 1..Len(q) : q[i] \in passing
    THEN (CHOOSE i \in 1..Len(q) : q[i] \in passing /\ \A j \in 1..(i - 1) : q[j] \notin passing) - 1
    ELSE -1

\* The elements of q.
Elements(q) == {q[i] : i \in 1..Len(q)}

\* Array.prototype.slice(start, end) for 0 <= start.
slice(q, start, end) ==
    IF start >= Min(end, Len(q)) THEN <<>> ELSE SubSeq(q, start + 1, Min(end, Len(q)))

\* SystemController.getHistory(limit, fromDate, toDate); a date is Absent
\* (null) or Given(its getTime()).
getHistory(h, limit, fromDate, toDate) ==
    LET found == findIndex(h.times, {time \in Elements(h.times) : time >= fromDate.n})
        startIndex == IF fromDate.given /\ found # -1 THEN found ELSE 0
        after == findIndex(h.times, {time \in Elements(h.times) : time > toDate.n})
        endIndex == IF toDate.given /\ after # -1 THEN after ELSE Len(h.times)
        actualLimit == Min(limit, endIndex - startIndex)
        start == Max(0, endIndex - actualLimit)
    IN  [angles |-> slice(h.angles, start, endIndex),
         errors |-> slice(h.errors, start, endIndex),
         times |-> slice(h.times, start, endIndex),
         totalPoints |-> Len(h.angles),
         rangeStart |-> start,
         rangeEnd |-> endIndex]

\* handleHistoryRequest: const { limit = 100, from, to } = data;
\* getHistory(limit, from ? new Date(from) : null, to ? new Date(to) : null)
handleHistoryRequest(h, limit, from, to) ==
    getHistory(h, IF limit.given THEN limit.n ELSE DefaultLimit,
               IF Truthy(from) THEN from ELSE Absent,
               IF Truthy(to) THEN to ELSE Absent)

\* Server.handleClientMessage, case 'getHistory': from and to are not read.
ServerGetHistory(h, limit) ==
    LET capped == Min(IF Truthy(limit) THEN limit.n ELSE DefaultLimit, ServerLimitCap)
        start == Max(0, Len(h.angles) - capped)
    IN  [angles |-> slice(h.angles, start, Len(h.angles)),
         errors |-> slice(h.errors, start, Len(h.errors)),
         times |-> slice(h.times, start, Len(h.times))]

\* {type: 'getHistory', limit, from, to} from client c
GetHistory(c, limit, from, to) ==
    /\ c \in clients
    /\ readyState[c] = "OPEN"
    /\ outbox' = sendToClient(EmptyBox, readyState, c,
                              Msg("historyData", TRUE,
                                  IF impl = "Server" THEN ServerGetHistory(dataHistory, limit)
                                  ELSE handleHistoryRequest(dataHistory, limit, from, to)))
    /\ result' = Outcome("getHistory", TRUE)
    /\ UNCHANGED <<impl, systemData, dataHistory, now, lastUpdateTime, clients,
                   readyState, pending, ticks>>
    /\ UNCHANGED <<clientInfo, heartbeatInterval>>
    /\ firstReceived' = noteFirst(firstReceived, clients', outbox')
    /\ pidOutput' = NoTickOutput

(***************************************************************************)
(* SpecQuery: one client starts the system and queries the history between *)
(* ticks, by count and by time range.                                      *)
(***************************************************************************)
QueryLimits == {Absent} \cup {Given(n) : n \in 0..MaxLimit}

\* Instants between, before and after the ticks of the clock.
QueryInstants ==
    {Absent} \cup {Given(k * UpdateInterval + UpdateInterval \div 2) : k \in 0..MaxClockQuery}

NextQuery ==
    \/ \E c \in Sockets : Connect(c)
    \/ \E c \in Sockets : WsCommand(c, "startSystem", <<>>)
    \/ AdvanceClock(MaxClockQuery)
    \/ \E perturbation \in Perturbations : Tick(perturbation, MaxTicksQuery)
    \/ \E c \in Sockets, limit \in QueryLimits :
          \E from \in QueryInstants, to \in QueryInstants : GetHistory(c, limit, from, to)

SpecQuery == Init /\ [][NextQuery]_vars

(***************************************************************************)
(* SpecWindup: ticks that come after long pauses of the clock, so that     *)
(* error * deltaTime goes beyond the limit of the integral, with the       *)
(* commands that reset the PID memory between them.                        *)
(***************************************************************************)
MaxTicksWindup == 2
MaxClockWindup == 3

WindupCommands == {"startSystem", "emergencyStop", "setTargetAngle", "resetSystem"}

WindupValues(command) == IF command = "setTargetAngle" THEN {<<"1", "8", "0">>} ELSE {<<>>}

NextWindup ==
    \/ \E command \in WindupCommands :
          \E value \in WindupValues(command) : ApiCommand(command, value)
    \/ AdvanceClock(MaxClockWindup)
    \/ \E perturbation \in Perturbations : Tick(perturbation, MaxTicksWindup)

SpecWindup == Init /\ [][NextWindup]_vars

(***************************************************************************)
(* SpecLockstep: sequences of the five synchronous commands applied from   *)
(* the initial state with the simulation timer not running, so that no     *)
(* tick falls between them.                                                *)
(***************************************************************************)
LockstepCommands ==
    {"startSystem", "stopSystem", "emergencyStop", "setTargetAngle", "resetSystem"}

LockstepValues(command) ==
    IF command = "setTargetAngle"
    THEN RawValues \cup {<<"0">>, <<"9", "0">>, <<"-", "9", "0">>}
    ELSE {<<>>}

NextLockstep ==
    \E command \in LockstepCommands :
       \E value \in LockstepValues(command) : ApiCommand(command, value)

SpecLockstep == Init /\ [][NextLockstep]_vars

(***************************************************************************)
(* SystemController.getSystemStats.  A returned value is either undefined  *)
(* or a statistics record.                                                 *)
(***************************************************************************)
MaxTicksStats == 2
MaxClockStats == 1

Undefined == [defined |-> FALSE, stats |-> InitialStats]
Defined(stats) == [defined |-> TRUE, stats |-> stats]

\* calculateStatistics: return this.updateStatistics(), which recomputes
\* systemData.stats in place and has no return value.
calculateStatistics(s, h, t) ==
    [sys |-> ControllerUpdateStatistics(s, h, t), value |-> Undefined]

\* { ...this.systemData.stats, uptime, dataPoints, averageUpdateRate }
statsSnapshot(s, h, t) ==
    [k \in DOMAIN s.stats \cup {"uptime", "dataPoints", "averageUpdateRate"} |->
        CASE k = "uptime" -> t - StartTime
          [] k = "dataPoints" -> Len(h.angles)
          [] k = "averageUpdateRate" -> 0
          [] OTHER -> s.stats[k]]

\* getSystemStats: the snapshot, replaced by what calculateStatistics returns
\* when the history is not empty.
getSystemStats(s, h, t) ==
    IF Len(h.angles) > 0 THEN calculateStatistics(s, h, t)
    ELSE [sys |-> s, value |-> Defined(statsSnapshot(s, h, t))]

\* a call of getSystemStats
GetSystemStats ==
    /\ impl = "SystemController"
    /\ \E r \in {getSystemStats(systemData, dataHistory, now)} :
          /\ systemData' = r.sys
          /\ result' = [op |-> "getSystemStats", ok |-> TRUE, value |-> r.value]
    /\ outbox' = EmptyBox
    /\ UNCHANGED <<impl, dataHistory, now, lastUpdateTime, clients, readyState,
                   pending, ticks>>
    /\ UNCHANGED <<clientInfo, heartbeatInterval>>
    /\ firstReceived' = noteFirst(firstReceived, clients', outbox')
    /\ pidOutput' = NoTickOutput

(***************************************************************************)
(* SpecStats: statistics requested before, between and after ticks and     *)
(* resets.                                                                 *)
(***************************************************************************)
StatsCommands == {"startSystem", "resetSystem"}

NextStats ==
    \/ \E command \in StatsCommands : ApiCommand(command, <<>>)
    \/ AdvanceClock(MaxClockStats)
    \/ \E perturbation \in Perturbations : Tick(perturbation, MaxTicksStats)
    \/ GetSystemStats

SpecStats == Init /\ [][NextStats]_vars

(***************************************************************************)
(* Properties.                                                             *)
(***************************************************************************)
PidMemory(s) == <<s.pid.integral, s.pid.previousError>>
PidGains(s) == <<s.pid.kp, s.pid.ki, s.pid.kd>>

\* The step is the REST/direct call of this command (any value).
Called(command) ==
    /\ result'.op = command
    /\ \E value \in ValuesFor(command) : ApiCommand(command, value)

\* The step is a gain update.
GainsCalled ==
    /\ result'.op = "updatePID"
    /\ \E pidParams \in PidBodies : UpdatePID(pidParams)

\* The step is a firing of the simulation timer.
Ticked(maxTicks) ==
    /\ result'.op \in {"tick", "tickSkipped"}
    /\ \E perturbation \in Perturbations : Tick(perturbation, maxTicks)

\* C1: startSystem fails whenever isRunning is already true and stopSystem
\* fails whenever isRunning is false; a failing start or stop leaves
\* isRunning, isConnected, referenceAngle, the PID memory and the history
\* exactly as they were.
C1_StartStopRejected ==
    [][ /\ Called("startSystem") =>
              IF systemData.isRunning
              THEN ~result'.ok /\ UNCHANGED <<systemData, dataHistory>>
              ELSE result'.ok
        /\ Called("stopSystem") =>
              IF ~systemData.isRunning
              THEN ~result'.ok /\ UNCHANGED <<systemData, dataHistory>>
              ELSE result'.ok
      ]_vars

\* C1 witness: a start has just been refused on a running system that has
\* ticked, so that there is state to preserve.
C1_Witness ==
    /\ result = Outcome("startSystem", FALSE)
    /\ systemData.isRunning
    /\ Len(dataHistory.angles) > 0
    /\ systemData.pid.previousError # 0

\* C2: the run state starts in Stopped; isRunning goes from false to true
\* only through a successful startSystem and from true to false only
\* through stopSystem, emergencyStop or resetSystem; ticks, setTargetAngle,
\* calibrate and PID gain updates never change it.
C2_RunStateMachine ==
    /\ ~systemData.isRunning
    /\ [][ /\ (~systemData.isRunning /\ systemData'.isRunning) =>
                 (Called("startSystem") /\ result'.ok)
           /\ (systemData.isRunning /\ ~systemData'.isRunning) =>
                 \E command \in {"stopSystem", "emergencyStop", "resetSystem"} :
                    Called(command)
           /\ systemData'.isRunning # systemData.isRunning =>
                 ~ \/ Ticked(MaxTicks)
                   \/ Called("setTargetAngle")
                   \/ Called("calibrate")
                   \/ CalibrateDone(Api)
                   \/ GainsCalled
         ]_vars

\* C2 witness: a calibration has completed while the system was running.
C2_Witness ==
    /\ result = Outcome("calibrate", TRUE)
    /\ systemData.isRunning
    /\ ticks > 0

\* C3: setTargetAngle(v) succeeds exactly when -180 <= v <= 180 and then
\* referenceAngle = v; otherwise (out of range, or not a number) it fails
\* and leaves referenceAngle and the PID memory unchanged.  referenceAngle
\* is within [-180, 180] in every reachable state.
C3_TargetAngleValidated ==
    /\ [](systemData.referenceAngle >= -180 /\ systemData.referenceAngle <= 180)
    /\ [][ result'.op = "setTargetAngle" =>
             \* whichever value explains the step, the outcome is the one stated
             \A value \in RawValues :
                LET v == parseFloat(value)
                IN  \/ IF ~v.nan /\ v.n >= -180 /\ v.n <= 180
                       THEN result'.ok /\ systemData'.referenceAngle = v.n
                       ELSE /\ ~result'.ok
                            /\ systemData'.referenceAngle = systemData.referenceAngle
                            /\ PidMemory(systemData') = PidMemory(systemData)
                    \/ ~ApiCommand("setTargetAngle", value)
         ]_vars

\* C3 witness: the lower bound itself has been accepted as the setpoint.
C3_Witness ==
    /\ result = Outcome("setTargetAngle", TRUE)
    /\ systemData.referenceAngle = -180

\* C4: resetSystem succeeds from every reachable state and yields
\* currentAngle = 0, referenceAngle = 45, pid.integral = 0,
\* pid.previousError = 0, isRunning = false and an empty history; the
\* SystemController's resetSystem also yields error = 0.
C4_ResetRestoresDefaults ==
    [][ Called("resetSystem") =>
           /\ result'.ok
           /\ systemData'.currentAngle = 0
           /\ systemData'.referenceAngle = 45
           /\ impl = "SystemController" => systemData'.error = 0
           /\ systemData'.pid.integral = 0
           /\ systemData'.pid.previousError = 0
           /\ ~systemData'.isRunning
           /\ dataHistory'.angles = <<>>
           /\ dataHistory'.errors = <<>>
           /\ dataHistory'.times = <<>>
      ]_vars

\* C4 witness: the SystemController has been reset after it had ticked.
C4_Witness ==
    /\ impl = "SystemController"
    /\ result = Outcome("resetSystem", TRUE)
    /\ ticks > 0
    /\ dataHistory = EmptyHistory
    /\ systemData.currentAngle = 0
    /\ systemData.error = 0

\* C5: emergencyStop never fails; it yields isRunning = false and
\* isConnected = false with the PID memory zeroed, applying it again changes
\* nothing, and it leaves currentAngle, referenceAngle, the PID gains and
\* the history unchanged.
C5_EmergencyStop ==
    [][ Called("emergencyStop") =>
           /\ result'.ok
           /\ ~systemData'.isRunning
           /\ ~systemData'.isConnected
           /\ PidMemory(systemData') = <<0, 0>>
           /\ executeCommand(impl, systemData', dataHistory', "emergencyStop", <<>>)
                 = Returned(systemData', dataHistory')
           /\ systemData'.currentAngle = systemData.currentAngle
           /\ systemData'.referenceAngle = systemData.referenceAngle
           /\ PidGains(systemData') = PidGains(systemData)
           /\ dataHistory' = dataHistory
      ]_vars

\* C5 witness: an emergency stop has been applied to a system that ticked.
C5_Witness ==
    /\ result = Outcome("emergencyStop", TRUE)
    /\ ~systemData.isRunning
    /\ ~systemData.isConnected
    /\ Len(dataHistory.angles) > 0
    /\ systemData.currentAngle # 0

\* C6: right after every successful startSystem, setTargetAngle, PID gain
\* update and resetSystem, pid.integral = 0 and pid.previousError = 0; the
\* PID memory is zeroed only by those handlers and emergencyStop: a tick
\* sets previousError to the tick's error and integral to the clamped sum.
C6_PidMemoryReset ==
    [][ /\ ( /\ result'.ok
             /\ \/ Called("startSystem")
                \/ Called("setTargetAngle")
                \/ GainsCalled
                \/ Called("resetSystem") ) => PidMemory(systemData') = <<0, 0>>
        /\ (systemData.isRunning /\ Ticked(MaxTicks)) =>
              LET sum == systemData.pid.integral
                         + systemData'.error * (now - lastUpdateTime)
              IN  /\ systemData'.pid.previousError = systemData'.error
                  /\ systemData'.pid.integral =
                        IF sum > 100000 THEN 100000
                        ELSE IF sum < -100000 THEN -100000 ELSE sum
        /\ PidMemory(systemData') # PidMemory(systemData) =>
              \/ Ticked(MaxTicks)
              \/ \E command \in {"startSystem", "setTargetAngle", "resetSystem",
                                 "emergencyStop"} : Called(command)
              \/ GainsCalled
      ]_vars

\* C6 witness: a gain update has zeroed the memory of a running controller
\* that had ticked.
C6_Witness ==
    /\ result = Outcome("updatePID", TRUE)
    /\ systemData.isRunning
    /\ ticks > 0
    /\ systemData.error # 0
    /\ PidMemory(systemData) = <<0, 0>>

Last(q) == q[Len(q)]

\* the history after one more entry, oldest evicted first when full
Pushed(q, x) == IF Len(q) < MaxPoints THEN Append(q, x) ELSE Append(Tail(q), x)

\* C7: after any sequence of commands and ticks currentAngle is within
\* [-180, 180].
C7_AngleInRange ==
    systemData.currentAngle >= -180 /\ systemData.currentAngle <= 180

\* C7 witness: the plant sits at the end of its range after a tick whose
\* push went beyond it.
C7_Witness ==
    /\ result = Outcome("tick", TRUE)
    /\ systemData.currentAngle = 180
    /\ Len(dataHistory.angles) = MaxPoints
    /\ LET unforced == dataHistory.angles[MaxPoints - 1]
                        + errorCorrection(dataHistory.errors[MaxPoints - 1])
       IN  unforced + MaxPerturbation > 180 /\ unforced - MaxPerturbation < 180

\* C8: the three history sequences always have the same length, at most
\* maxPoints; a tick appends the same tick's angle, error and time at the
\* end of each, and on a full history removes exactly the oldest entry of
\* each.
C8_HistoryRing ==
    /\ [](/\ Len(dataHistory.angles) = Len(dataHistory.errors)
          /\ Len(dataHistory.angles) = Len(dataHistory.times)
          /\ Len(dataHistory.angles) <= MaxPoints)
    /\ [][ (systemData.isRunning /\ Ticked(MaxTicksHistory)) =>
              /\ dataHistory'.angles = Pushed(dataHistory.angles, systemData'.currentAngle)
              /\ dataHistory'.errors = Pushed(dataHistory.errors, systemData'.error)
              /\ dataHistory'.times = Pushed(dataHistory.times, now)
         ]_vars

\* C8 witness: a tick has evicted from a full history.
C8_Witness ==
    /\ result = Outcome("tick", TRUE)
    /\ ticks > MaxPoints
    /\ Len(dataHistory.angles) = MaxPoints
    /\ dataHistory.times[1] # dataHistory.times[MaxPoints]

\* C9: a tick that fires while isRunning is false changes nothing
\* (currentAngle, error, PID memory, history, stats, lastUpdateTime) and
\* sends no message to any client.
C9_StoppedTickIsNoOp ==
    [][ (~systemData.isRunning /\ Ticked(MaxTicksFanout)) =>
           /\ UNCHANGED <<systemData, dataHistory, lastUpdateTime>>
           /\ \A c \in Sockets : outbox'[c] = <<>>
      ]_vars

\* C9 witness: the Server skipped a tick with an open client registered and
\* a history left by earlier ticks.
C9_Witness ==
    /\ impl = "Server"
    /\ result = Outcome("tickSkipped", FALSE)
    /\ \E c \in clients : readyState[c] = "OPEN"
    /\ Len(dataHistory.angles) > 0

\* C10: every tick the Server executes appends exactly one entry to the
\* history and sends exactly one dataUpdate to each registered client with
\* an open socket and nothing to anyone else; the dataUpdate carries the
\* last entry of history.angles and history.errors.
C10_TickBroadcast ==
    [][ (systemData.isRunning /\ impl = "Server" /\ Ticked(MaxTicksFanout)) =>
           /\ Len(dataHistory'.angles) = Min(Len(dataHistory.angles) + 1, MaxPoints)
           /\ \A c \in Sockets :
                IF c \in clients /\ readyState[c] = "OPEN"
                THEN /\ Len(outbox'[c]) = 1
                     /\ outbox'[c][1].type = "dataUpdate"
                     /\ outbox'[c][1].body.currentAngle = Last(dataHistory'.angles)
                     /\ outbox'[c][1].body.error = Last(dataHistory'.errors)
                ELSE outbox'[c] = <<>>
      ]_vars

\* C10 witness: a tick reached the open client and skipped the closing one.
C10_Witness ==
    /\ impl = "Server"
    /\ result = Outcome("tick", TRUE)
    /\ \E c \in clients :
          /\ readyState[c] = "OPEN"
          /\ Len(outbox[c]) = 1
          /\ outbox[c][1].type = "dataUpdate"
    /\ \E c \in clients : readyState[c] = "CLOSING" /\ outbox[c] = <<>>

\* The step is a call of WebSocketManager.broadcast.
Broadcasted(channel, throwing) ==
    /\ result'.op = "broadcast"
    /\ BroadcastCall(channel, throwing)

\* C11: broadcast without a channel filter over N registered clients, K of
\* them not open, returns {sent: N-K, failed: K} (a socket whose send throws
\* counts as failed too): every open client whose send works gets the
\* message exactly once, whatever the other sockets do, and the call
\* returns normally.
C11_BroadcastCounts ==
    [][ \A throwing \in SUBSET Sockets :
          Broadcasted(NoChannel, throwing) =>
             LET closed == {c \in clients : readyState[c] # "OPEN"}
                 threw == {c \in clients \ closed : c \in throwing}
                 N == Cardinality(clients)
                 K == Cardinality(closed) + Cardinality(threw)
             IN  /\ result'.ok
                 /\ result'.sent = N - K
                 /\ result'.failed = K
                 /\ \A c \in Sockets :
                       Len(outbox'[c]) =
                          IF c \in clients \ (closed \cup threw) THEN 1 ELSE 0
      ]_vars

\* C11 witness: an unfiltered broadcast over two registered clients, one of
\* them closing, has reached the other.
C11_Witness ==
    /\ result.op = "broadcast"
    /\ result.sent = 1
    /\ result.failed = 1
    /\ clients = Sockets
    /\ \E c \in clients :
          /\ readyState[c] = "CLOSING"
          /\ \A d \in clients \ {c} :
                outbox[d] = <<Msg("notice", TRUE, NoChannel)>>

\* C12: with a channel filter, broadcast delivers only to the clients
\* subscribed to that channel: every registered client without the channel in
\* its subscriptions, a client that never subscribed to anything included,
\* is skipped and counted neither as sent nor as failed.
C12_ChannelFilter ==
    [][ \A channel \in Channels, throwing \in SUBSET Sockets :
          Broadcasted(channel, throwing) =>
             LET subscribers == {c \in clients :
                                    channel \in clientInfo[c].subscriptions}
             IN  /\ \A c \in clients \ subscribers : outbox'[c] = <<>>
                 /\ result'.sent + result'.failed = Cardinality(subscribers)
      ]_vars

\* The step is a command message of a socket (any socket, these commands).
Commanded(commands) ==
    /\ result'.op \in commands
    /\ \E c \in Sockets, command \in commands : WsCommand(c, command, <<>>)

\* The step sends one message to the whole registry: an unfiltered broadcast
\* whose sends all work, the systemUpdate of a successful command, or the
\* dataUpdate of a tick of the Server.
BroadcastStep ==
    \/ Broadcasted(NoChannel, {})
    \/ result'.ok /\ Commanded(RegistryCommands)
    \/ result'.op = "tick" /\ impl = "Server" /\ Ticked(MaxTicksRegistry)

\* C13: on connect the client is added to the registry and the welcome
\* message, carrying the system state of that moment, is unicast to it;
\* welcome is the first message every client is sent, ahead of any
\* dataUpdate or systemUpdate; from then on the client stays registered
\* until its close event or shutdown, and every broadcast reaches it while
\* its socket is open.
C13_WelcomeFirst ==
    /\ [](\A c \in Sockets :
            /\ firstReceived[c] \in {"none", "welcome"}
            /\ c \in clients /\ firstReceived[c] = "none" => readyState[c] # "OPEN")
    /\ [][ /\ result'.op = "connect" =>
                \A c \in Sockets :
                   Connect(c) =>
                      /\ c \in clients'
                      /\ outbox' = [d \in Sockets |->
                                       IF d = c
                                       THEN <<Msg("welcome", TRUE, systemData)>>
                                       ELSE <<>>]
                      /\ firstReceived'[c] = "welcome"
           /\ \A c \in clients :
                 /\ c \notin clients' => (Close(c) \/ CloseAll)
                 /\ (readyState[c] = "OPEN" /\ BroadcastStep) =>
                       /\ Len(outbox'[c]) >= 1
                       /\ outbox'[c][Len(outbox'[c])].type
                             \in {"notice", "systemUpdate", "dataUpdate"}
         ]_vars

\* C13 witness: a registered open client whose first message was the
\* welcome has just been sent the dataUpdate of a tick.
C13_Witness ==
    /\ result = Outcome("tick", TRUE)
    /\ \E c \in clients :
          /\ firstReceived[c] = "welcome"
          /\ Len(outbox[c]) = 1
          /\ outbox[c][1].type = "dataUpdate"
          /\ readyState[c] = "OPEN"

\* The step is a firing of the heartbeat timer.
Swept ==
    /\ result'.op = "sweep"
    /\ Sweep

\* C14: with the heartbeat running, a registered client that sends neither
\* a pong nor a heartbeat message across two consecutive sweeps (the first
\* clears its liveness flag, nothing but a pong or heartbeat message sets it
\* again) is terminated at the second sweep and is eventually removed from
\* the registry; once removed it is sent no broadcast and is counted in no
\* broadcast result.
C14_SilentClientEvicted ==
    /\ [][ /\ Swept =>
                \A c \in clients :
                   /\ ~clientInfo'[c].isAlive
                   /\ ~clientInfo[c].isAlive => readyState'[c] = "CLOSING"
                   /\ clientInfo[c].isAlive => readyState'[c] = readyState[c]
           /\ \A c \in clients :
                 (c \in clients' /\ ~clientInfo[c].isAlive /\ clientInfo'[c].isAlive)
                    => Pong(c)
           /\ result'.op = "broadcast" =>
                 /\ \A c \in Sockets \ clients : outbox'[c] = <<>>
                 /\ result'.sent + result'.failed <= Cardinality(clients)
         ]_vars
    /\ \A c \in Sockets :
          (heartbeatInterval /\ c \in clients /\ ~clientInfo[c].isAlive)
             ~> (c \notin clients \/ clientInfo[c].isAlive)

\* C14 witness: the sweep has terminated a registered client whose flag the
\* sweep before had cleared; it is still registered, waiting for its close
\* event.
C14_Witness ==
    /\ result = Outcome("sweep", TRUE)
    /\ heartbeatInterval
    /\ \E c \in clients :
          /\ readyState[c] = "CLOSING"
          /\ ~clientInfo[c].isAlive

\* C15 as stated: at each sweep every client whose liveness flag was already
\* false is terminated and is no longer in the registry once the sweep has
\* finished; every other client has its flag cleared.
C15_SweepUnregisters ==
    [][ Swept =>
           \A c \in clients :
              IF ~clientInfo[c].isAlive
              THEN readyState'[c] # "OPEN" /\ c \notin clients'
              ELSE ~clientInfo'[c].isAlive
      ]_vars

\* C15 amended: at each sweep every registered client whose liveness flag
\* was already false is terminated by that sweep (its socket is closing) and
\* stays in the registry until its close event (or shutdown) unregisters it,
\* which eventually happens; every other registered client has its flag
\* cleared and its socket left as it was.
C15_SweepTerminates ==
    /\ [][ /\ Swept =>
                /\ clients' = clients
                /\ \A c \in clients :
                      IF ~clientInfo[c].isAlive
                      THEN readyState'[c] = "CLOSING"
                      ELSE /\ ~clientInfo'[c].isAlive
                           /\ readyState'[c] = readyState[c]
           /\ \A c \in clients :
                 (readyState[c] = "CLOSING" /\ c \notin clients')
                    => (CloseEvent(c) \/ CloseAll)
         ]_vars
    /\ \A c \in Sockets :
          (c \in clients /\ readyState[c] = "CLOSING") ~> (c \notin clients)

\* C15 witness: one sweep has terminated a silent client, which is still
\* registered, and cleared the flag of a client that had answered.
C15_Witness ==
    /\ result = Outcome("sweep", TRUE)
    /\ \E c, d \in clients :
          /\ readyState[c] = "CLOSING"
          /\ readyState[d] = "OPEN"
          /\ ~clientInfo[d].isAlive

MustFail(command, value) ==
    \/ command = "bogus"
    \/ /\ command = "setTargetAngle"
       /\ LET v == parseFloat(value) IN v.nan \/ v.n < -180 \/ v.n > 180
    \/ command = "startSystem" /\ systemData.isRunning
    \/ command = "stopSystem" /\ ~systemData.isRunning

TickFires == \E perturbation \in Perturbations : Tick(perturbation, MaxTicksCommands)

\* C17: a command that fails (unknown name, out-of-range or non-numeric
\* angle, start while running, stop while stopped) is answered to its sender
\* alone with a commandResponse whose success is false; it changes nothing
\* of the system state or the history, no systemUpdate is broadcast, the
\* sender and every other client stay registered with their sockets as they
\* were, and the tick still fires afterwards.
C17_FailedCommandIsLocal ==
    /\ []((result.op \in Commands /\ ~result.ok
             /\ (systemData.isRunning => ticks < MaxTicksCommands))
          => ENABLED TickFires)
    /\ [][ \A command \in Commands :
             result'.op = command =>
                \A c \in Sockets, value \in WsValues(command) :
                   WsCommand(c, command, value) =>
                      /\ MustFail(command, value) => ~result'.ok
                      /\ ~result'.ok =>
                            /\ outbox' =
                                  [d \in Sockets |->
                                      IF d = c
                                      THEN <<Msg("commandResponse", FALSE, command)>>
                                      ELSE <<>>]
                            /\ UNCHANGED <<systemData, dataHistory, clients,
                                           readyState, lastUpdateTime, ticks>>
         ]_vars

\* C17 witness: with two clients registered and the system running after a
\* tick, a non-numeric angle has been refused and only its sender answered.
C17_Witness ==
    /\ result = Outcome("setTargetAngle", FALSE)
    /\ clients = Sockets
    /\ systemData.isRunning
    /\ ticks > 0
    /\ \E c \in Sockets :
          /\ outbox[c] = <<Msg("commandResponse", FALSE, "setTargetAngle")>>
          /\ \A d \in Sockets \ {c} : outbox[d] = <<>>

\* What a successful command of sender c leaves in the sockets: the
\* commandResponse for c if its socket is open, then the systemUpdate for
\* every registered open socket.
SuccessTraffic(c, command, update) ==
    [d \in Sockets |->
        (IF d = c /\ readyState[d] = "OPEN"
         THEN <<Msg("commandResponse", TRUE, command)>> ELSE <<>>)
        \o (IF d \in clients /\ readyState[d] = "OPEN" THEN <<update>> ELSE <<>>)]

HasSystemUpdate(box) ==
    \E d \in Sockets : \E k \in 1..Len(box[d]) : box[d][k].type = "systemUpdate"

\* C18: for every command that succeeds, the sender is first sent a
\* commandResponse with success true, and then a systemUpdate carrying the
\* state as it is after the command goes to every registered open client,
\* the sender included; a systemUpdate is in flight only right after a
\* command that has been applied.
C18_SuccessFanout ==
    /\ [](HasSystemUpdate(outbox) => (result.ok /\ result.op \in Commands))
    /\ [][ /\ \A command \in Commands :
                (result'.op = command /\ result'.ok) =>
                   \A c \in Sockets, value \in WsValues(command) :
                      WsCommand(c, command, value) =>
                         LET update == Msg("systemUpdate", TRUE,
                                           IF impl = "Server" THEN systemData'
                                           ELSE getSystemStatus(systemData',
                                                                dataHistory', now))
                         IN  /\ systemData' =
                                   executeCommand(impl, systemData, dataHistory,
                                                  command, value).sys
                             /\ readyState[c] = "OPEN"
                             /\ outbox' = SuccessTraffic(c, command, update)
           /\ result'.op = "calibrate" =>
                 \A c \in Sockets :
                    CalibrateDone(c) =>
                       /\ systemData'.isConnected
                       /\ outbox' =
                             SuccessTraffic(c, "calibrate",
                                Msg("systemUpdate", TRUE,
                                    getSystemStatus(systemData', dataHistory', now)))
         ]_vars

\* C18 witness: a new target angle sent by one of two open clients has been
\* applied; the sender got the response and then the update, the other
\* client the update, both carrying the new setpoint.
C18_Witness ==
    /\ result = Outcome("setTargetAngle", TRUE)
    /\ clients = Sockets
    /\ \E c \in Sockets :
          /\ Len(outbox[c]) = 2
          /\ outbox[c][1].type = "commandResponse"
          /\ outbox[c][2].type = "systemUpdate"
          /\ \A d \in Sockets \ {c} :
                /\ Len(outbox[d]) = 1
                /\ outbox[d][1].type = "systemUpdate"
                /\ outbox[d][1].body.referenceAngle = 180
                /\ outbox[d][1].body = outbox[c][2].body

\* the documented command vocabulary
Vocabulary ==
    {"startSystem", "stopSystem", "emergencyStop", "setTargetAngle",
     "resetSystem", "calibrate", "setPID"}

\* C19: executeCommand accepts every command of the documented vocabulary;
\* in particular a setPID command carrying at least one gain >= 0 succeeds,
\* merges the gains into pid and zeroes integral and previousError, rather
\* than failing as an unknown command.
C19_VocabularyAccepted ==
    [][ \A command \in Vocabulary :
          result'.op = command =>
             \A c \in Sockets, value \in WsValues(command) :
                (WsCommand(c, command, value) /\ ~MustFail(command, value)) =>
                   /\ result'.ok
                   /\ command = "setPID" =>
                         systemData'.pid =
                            resetPIDController(mergePid(systemData.pid, value))
      ]_vars

GainNames == {"kp", "ki", "kd"}

\* C20: updatePIDParameters succeeds when at least one of kp, ki, kd is
\* present with a numeric value >= 0: it overwrites exactly those gains,
\* leaves the other gains unchanged, ignores invalid and unknown fields and
\* zeroes integral and previousError; when no field is valid it fails and
\* leaves pid unchanged.  kp, ki and kd are >= 0 in every reachable state.
C20_GainUpdate ==
    /\ [](\A f \in GainNames : systemData.pid[f] >= 0)
    /\ [][ result'.op = "updatePID" =>
             \A body \in GainBodies :
                UpdatePID(body) =>
                   LET valid == {f \in GainNames \cap DOMAIN body :
                                    LET v == parseFloat(body[f])
                                    IN  ~v.nan /\ v.n >= 0}
                   IN  IF valid # {}
                       THEN /\ result'.ok
                            /\ \A f \in GainNames :
                                  systemData'.pid[f] =
                                     IF f \in valid
                                     THEN 100 * parseFloat(body[f]).n
                                     ELSE systemData.pid[f]
                            /\ DOMAIN systemData'.pid = DOMAIN systemData.pid
                            /\ systemData'.pid.integral = 0
                            /\ systemData'.pid.previousError = 0
                       ELSE /\ ~result'.ok
                            /\ systemData'.pid = systemData.pid
         ]_vars

\* C20 witness: after a tick left the controller with memory, an update has
\* set kd to 0 and kp to 3, kept ki, and zeroed the memory.
C20_Witness ==
    /\ result = Outcome("updatePID", TRUE)
    /\ ticks > 0
    /\ systemData.error # 0
    /\ systemData.pid = [kp |-> 300, ki |-> 10, kd |-> 0,
                         integral |-> 0, previousError |-> 0]

\* C21: calibrate (of the SystemController) never fails and does not block:
\* issuing it changes no state and sends nothing; while its delay runs the
\* tick still fires and commands of any open client, the issuing one
\* included, are still handled; when the delay ends its only state change is
\* isConnected := true, and then the commandResponse and the systemUpdate
\* broadcast are sent.
C21_CalibrateDoesNotBlock ==
    /\ [](\A c \in pending :
            /\ impl = "SystemController"
            /\ ENABLED CalibrateDone(c)
            /\ (systemData.isRunning => ticks < MaxTicksCommands) => ENABLED TickFires
            /\ \A d \in clients :
                  readyState[d] = "OPEN" =>
                     /\ ENABLED WsCommand(d, "emergencyStop", <<>>)
                     /\ ENABLED WsCommand(d, "setTargetAngle", <<"1", "8", "0">>))
    /\ [][ /\ (impl = "SystemController" /\ result'.op = "calibrate") => result'.ok
           /\ result'.op = "calibrateIssued" =>
                 /\ UNCHANGED <<systemData, dataHistory, clients, readyState>>
                 /\ outbox' = EmptyBox
                 /\ \E c \in Sockets : pending' = pending \cup {c} /\ c \notin pending
           /\ (result'.op = "calibrate" /\ result'.ok) =>
                 \A c \in Sockets :
                    CalibrateDone(c) =>
                       /\ systemData' = [systemData EXCEPT !.isConnected = TRUE]
                       /\ UNCHANGED <<dataHistory, clients, readyState>>
                       /\ outbox' =
                             SuccessTraffic(c, "calibrate",
                                Msg("systemUpdate", TRUE,
                                    getSystemStatus(systemData', dataHistory', now)))
         ]_vars

\* C21 witness: while its calibrate is waiting, the issuing client has had a
\* stop applied and answered, after a tick.
C21_Witness ==
    /\ result = Outcome("stopSystem", TRUE)
    /\ ticks > 0
    /\ \E c \in pending :
          /\ Len(outbox[c]) = 2
          /\ outbox[c][1] = Msg("commandResponse", TRUE, "stopSystem")
          /\ \A d \in Sockets \ {c} : outbox[d] = <<>>

\* The messages in flight, whoever they are for.
InFlight == UNION {{outbox[c][k] : k \in 1..Len(outbox[c])} : c \in Sockets}

\* The parts of the state a tick writes agree with each other, as they do
\* when the tick has run to its end.
TickComplete ==
    /\ systemData.error = systemData.currentAngle - systemData.referenceAngle
    /\ systemData.pid.previousError = systemData.error
    /\ Last(dataHistory.angles) = systemData.currentAngle
    /\ Last(dataHistory.errors) = systemData.error
    /\ Last(dataHistory.times) = lastUpdateTime
    /\ systemData.stats.minAngle = SeqMin(dataHistory.angles)
    /\ systemData.stats.maxAngle = SeqMax(dataHistory.angles)
    /\ systemData.stats.avgAngle = SeqSum(dataHistory.angles) \div Len(dataHistory.angles)

\* C22: ticks and commands are applied as indivisible steps: every snapshot
\* sent to clients (welcome, systemUpdate, dataUpdate) shows the state as it
\* is once the step that sent it has completed, the state after a tick has
\* all of the tick's writes (plant, error, PID, history, statistics), and a
\* command leaves no trace of a half-done tick behind.
C22_WholeSteps ==
    /\ [](\A m \in InFlight :
            /\ m.type = "welcome" => m.body = systemData
            /\ m.type = "systemUpdate" =>
                  m.body = (IF impl = "Server" THEN systemData
                            ELSE getSystemStatus(systemData, dataHistory, now))
            /\ m.type = "dataUpdate" =>
                  /\ result = Outcome("tick", TRUE)
                  /\ m.body.currentAngle = systemData.currentAngle
                  /\ m.body.referenceAngle = systemData.referenceAngle
                  /\ m.body.error = systemData.error
                  /\ m.body.stats = systemData.stats
                  /\ m.body.isRunning = systemData.isRunning)
    /\ [](result = Outcome("tick", TRUE) => TickComplete)
    /\ [](/\ Len(dataHistory.angles) = Len(dataHistory.errors)
          /\ Len(dataHistory.angles) = Len(dataHistory.times)
          /\ Len(dataHistory.angles) > 0 =>
                /\ systemData.stats.minAngle = SeqMin(dataHistory.angles)
                /\ systemData.stats.maxAngle = SeqMax(dataHistory.angles)
                /\ Last(dataHistory.times) = lastUpdateTime)

\* C22 witness: the dataUpdate of a second tick is in flight to two clients
\* and shows the state with both ticks in its statistics.
C22_Witness ==
    /\ result = Outcome("tick", TRUE)
    /\ Len(dataHistory.angles) = 2
    /\ dataHistory.angles[1] # dataHistory.angles[2]
    /\ \A c \in Sockets :
          /\ Len(outbox[c]) = 1
          /\ outbox[c][1].type = "dataUpdate"
          /\ outbox[c][1].body.stats.minAngle # outbox[c][1].body.stats.maxAngle

\* The number of dataUpdate messages in flight to a client.
DataUpdates(box, c) == Cardinality({k \in 1..Len(box[c]) : box[c][k].type = "dataUpdate"})

\* C23: dataUpdate messages go out tick by tick: the step of tick N (the one
\* that takes the tick count to N) sends that tick's dataUpdate, once, to
\* every client that is registered and OPEN, before tick N+1 can start, and
\* no other step sends a dataUpdate; so no client gets tick N+1's before all
\* have been sent tick N's, and each client gets them in tick order.
C23_TickByTick ==
    [][ IF impl = "Server" /\ ticks' # ticks
        THEN /\ ticks' = ticks + 1
             /\ result' = Outcome("tick", TRUE)
             /\ \A c \in Sockets :
                   IF c \in clients /\ readyState[c] = "OPEN"
                   THEN /\ Len(outbox'[c]) = 1
                        /\ outbox'[c][1].type = "dataUpdate"
                        /\ outbox'[c][1].body.currentAngle = Last(dataHistory'.angles)
                        /\ outbox'[c][1].body.error = Last(dataHistory'.errors)
                   ELSE outbox'[c] = <<>>
        ELSE \/ UNCHANGED outbox
             \/ \A c \in Sockets : DataUpdates(outbox', c) = 0
      ]_vars

\* C23 witness: the second tick's dataUpdate is in flight to the one client
\* that is registered and OPEN, and to nobody else.
C23_Witness ==
    /\ impl = "Server"
    /\ result = Outcome("tick", TRUE)
    /\ ticks = 2
    /\ \E c \in clients :
          /\ readyState[c] = "OPEN"
          /\ DataUpdates(outbox, c) = 1
          /\ \A d \in Sockets \ {c} : outbox[d] = <<>> /\ d \in clients

\* C24: a successful setTargetAngle(v) writes v as the reference, nothing but
\* a later successful setTargetAngle or resetSystem changes the reference,
\* and a tick of the running system broadcasts a dataUpdate whose
\* referenceAngle is the reference it found and whose error is the new angle
\* minus that reference; so the next dataUpdate after the retarget carries
\* referenceAngle = v and error = currentAngle - v.
C24_RetargetReachesNextTick ==
    [][ /\ (result'.op = "setTargetAngle" /\ result'.ok) =>
              \A c \in Sockets, value \in FanoutValues("setTargetAngle") :
                 WsCommand(c, "setTargetAngle", value) =>
                    systemData'.referenceAngle = parseFloat(value).n
        /\ systemData'.referenceAngle # systemData.referenceAngle =>
              /\ result'.op \in {"setTargetAngle", "resetSystem"}
              /\ result'.ok
        /\ (impl = "Server" /\ ticks' # ticks) =>
              \A c \in Sockets :
                 \A k \in 1..Len(outbox'[c]) :
                    /\ outbox'[c][k].body.referenceAngle = systemData.referenceAngle
                    /\ outbox'[c][k].body.error =
                          outbox'[c][k].body.currentAngle - systemData.referenceAngle
      ]_vars

\* C24 witness: the system was retargeted to 180 after its first tick, and the
\* second tick's dataUpdate carries reference 180 and the error against it.
C24_Witness ==
    /\ impl = "Server"
    /\ result = Outcome("tick", TRUE)
    /\ ticks = 2
    /\ Len(dataHistory.errors) = 2
    /\ dataHistory.errors[1] = dataHistory.angles[1] - DefaultReference
    /\ \E c \in clients :
          /\ Len(outbox[c]) = 1
          /\ outbox[c][1].type = "dataUpdate"
          /\ outbox[c][1].body.referenceAngle = 180
          /\ outbox[c][1].body.error = outbox[c][1].body.currentAngle - 180

\* C25: when a client's transport closes it leaves the registry and nothing
\* is sent to it any more; a calibrate it had pending stays pending, can
\* still complete, and when it does it sets isConnected and the systemUpdate
\* goes to exactly the clients that are still registered and OPEN.
C25_CloseKeepsCommand ==
    /\ [](\A c \in Sockets : c \notin clients => outbox[c] = <<>>)
    /\ [](\A c \in pending : ENABLED CalibrateDone(c))
    /\ [][ /\ result'.op = "close" =>
                 \A c \in Sockets :
                    Close(c) => c \notin clients' /\ pending' = pending
           /\ result'.op = "calibrate" =>
                 \A c \in Sockets \ clients :
                    CalibrateDone(c) =>
                       /\ systemData'.isConnected
                       /\ clients' = clients
                       /\ \A d \in Sockets :
                             outbox'[d] =
                                IF d \in clients /\ readyState[d] = "OPEN"
                                THEN <<Msg("systemUpdate", TRUE,
                                           getSystemStatus(systemData', dataHistory', now))>>
                                ELSE <<>>
         ]_vars

\* C25 witness: a calibrate has completed whose sender had closed: the other
\* client gets the systemUpdate alone, without a commandResponse, and the
\* sender, no longer registered, gets nothing.
C25_Witness ==
    /\ result = Outcome("calibrate", TRUE)
    /\ systemData.isConnected
    /\ \E d \in clients :
          /\ Len(outbox[d]) = 1
          /\ outbox[d][1].type = "systemUpdate"
          /\ outbox[d][1].body.isConnected
          /\ \A c \in Sockets \ {d} : c \notin clients /\ outbox[c] = <<>>

\* The angles currently in the history window.
Window == {dataHistory.angles[i] : i \in 1..Len(dataHistory.angles)}

\* C26: after every executed tick the history is non-empty, and whenever the
\* history is non-empty minAngle <= avgAngle <= maxAngle, stdAngle >= 0,
\* minAngle is the least and maxAngle the greatest of the angles in the
\* history window.
C26_StatisticsBracket ==
    /\ result = Outcome("tick", TRUE) => Window # {}
    /\ Window # {} =>
          /\ systemData.stats.minAngle <= systemData.stats.avgAngle
          /\ systemData.stats.avgAngle <= systemData.stats.maxAngle
          /\ systemData.stats.stdAngle >= 0
          /\ systemData.stats.minAngle \in Window
          /\ systemData.stats.maxAngle \in Window
          /\ \A a \in Window : systemData.stats.minAngle <= a /\ a <= systemData.stats.maxAngle

\* C26 witness: the window is full after an eviction, holds two different
\* angles, and the spread is positive.
C26_Witness ==
    /\ ticks > MaxPoints
    /\ Cardinality(Window) = MaxPoints
    /\ systemData.stats.stdAngle > 0
    /\ systemData.stats.minAngle < systemData.stats.maxAngle

\* The last k entries of q.
Suffix(q, k) == SubSeq(q, Len(q) - k + 1, Len(q))

\* What a count query for limit entries is to return from history h.
MostRecent(h, limit) ==
    LET k == Min(limit, Len(h.times))
    IN  [angles |-> Suffix(h.angles, k), errors |-> Suffix(h.errors, k),
         times |-> Suffix(h.times, k)]

\* The three sequences of a reply.
Columns(history) ==
    [angles |-> history.angles, errors |-> history.errors, times |-> history.times]

\* C27: getHistory(limit) with no time range returns the most recent
\* min(limit, length) entries of the history: three index-aligned suffixes of
\* the stored sequences, of equal length; and the history is as it was.
C27_CountQuery ==
    [][ result'.op = "getHistory" =>
           \A c \in Sockets, limit \in QueryLimits :
              (limit.given /\ GetHistory(c, limit, Absent, Absent)) =>
                 /\ Columns(outbox'[c][1].body) = MostRecent(dataHistory, limit.n)
                 /\ dataHistory' = dataHistory
      ]_vars

\* from <= t <= to, for the ends of the range that are given.
InRange(t, from, to) == (from.given => from.n <= t) /\ (to.given => t <= to.n)

\* What a range query is to return from history h: the most recent
\* min(limit, number in range) of the entries whose timestamp is in range.
MostRecentInRange(h, limit, from, to) ==
    LET hits == {i \in 1..Len(h.times) : InRange(h.times[i], from, to)}
        k == Min(limit, Cardinality(hits))
        picked == {i \in hits : Cardinality({j \in hits : j > i}) < k}
        Pick(q) == SelectSeq([i \in 1..Len(q) |-> <<i, q[i]>>], LAMBDA e : e[1] \in picked)
        Values(q) == [i \in 1..Len(Pick(q)) |-> Pick(q)[i][2]]
    IN  [angles |-> Values(h.angles), errors |-> Values(h.errors), times |-> Values(h.times)]

\* C28: getHistory(limit, from, to) queried by time range returns only
\* entries whose timestamp t satisfies from <= t <= to, at most limit of
\* them, the most recent ones in the range; so it returns none when from is
\* later than every stored timestamp or to is earlier than every one.
C28_RangeQuery ==
    [][ (impl = "SystemController" /\ result'.op = "getHistory") =>
           \A c \in Sockets, limit \in QueryLimits :
              \A from \in QueryInstants, to \in QueryInstants :
                 (limit.given /\ (from.given \/ to.given) /\ GetHistory(c, limit, from, to)) =>
                    Columns(outbox'[c][1].body) =
                       MostRecentInRange(dataHistory, limit.n, from, to)
      ]_vars

C30_TwoStrikes ==
    [][ /\ result'.op = "connect" =>
              \A c \in Sockets : Connect(c) => clientInfo'[c].isAlive
        /\ result'.op = "pong" =>
              \A c \in Sockets :
                 Pong(c) => clientInfo'[c].isAlive /\ readyState'[c] = "OPEN"
        /\ \A c \in clients \cap clients' :
              (clientInfo[c].isAlive /\ ~clientInfo'[c].isAlive) => Swept
        /\ Swept =>
              \A c \in clients :
                 clientInfo[c].isAlive => c \in clients' /\ readyState'[c] = readyState[c]
        /\ \A c \in clients :
              (readyState[c] = "OPEN" /\ readyState'[c] # "OPEN") =>
                 \/ Swept /\ ~clientInfo[c].isAlive
                 \/ result'.op \in {"close", "closeAll"}
      ]_vars

\* C30 witness: with the heartbeat running, a client whose flag a sweep had
\* cleared has answered and is alive and OPEN again, while the other client,
\* silent across two sweeps, has been terminated.
C30_Witness ==
    /\ result = Outcome("pong", TRUE)
    /\ heartbeatInterval
    /\ \E c \in clients :
          /\ readyState[c] = "OPEN"
          /\ clientInfo[c].isAlive
          /\ \E d \in clients \ {c} : readyState[d] = "CLOSING" /\ ~clientInfo[d].isAlive

\* C31: pid.integral stays within [-100, 100] in every reachable state: each
\* executed tick adds error * dt to it and then clamps, however large dt is,
\* and every command that resets the PID memory sets it to 0.
C31_IntegralBounded ==
    /\ [](/\ systemData.pid.integral >= -IntegralLimit * MsPerSecond
          /\ systemData.pid.integral <= IntegralLimit * MsPerSecond)
    /\ [][ /\ ticks' # ticks =>
                 LET sum == systemData.pid.integral
                               + systemData'.error * (now - lastUpdateTime)
                 IN  systemData'.pid.integral =
                        (IF sum > IntegralLimit * MsPerSecond
                         THEN IntegralLimit * MsPerSecond
                         ELSE IF sum < -IntegralLimit * MsPerSecond
                         THEN -IntegralLimit * MsPerSecond
                         ELSE sum)
           /\ (result'.op \in WindupCommands /\ result'.ok) => systemData'.pid.integral = 0
         ]_vars

\* C31 witness: the first tick after a long pause found error * dt beyond
\* the limit and left the integral at the limit.
C31_Witness ==
    /\ result = Outcome("tick", TRUE)
    /\ ticks = 1
    /\ systemData.pid.integral = -IntegralLimit * MsPerSecond
    /\ systemData.error * now < -IntegralLimit * MsPerSecond

\* C32: a tick that runs with dt = 0 divides by nothing: its derivative term
\* is 0, its output is kp*error + ki*integral, with the integral left as it
\* was; and previousError is set to the current error, as on every other
\* executed tick.
C32_ZeroDt ==
    [][ ticks' # ticks =>
           /\ systemData'.pid.previousError = systemData'.error
           /\ now = lastUpdateTime =>
                 /\ systemData'.pid.integral = systemData.pid.integral
                 /\ pidOutput'.computed =
                       systemData'.pid.kp * systemData'.error * MsPerSecond
                       + systemData'.pid.ki * systemData'.pid.integral
      ]_vars

\* C32 witness: the first tick ran before the clock had moved, with an error
\* that differs from the previousError it found.
C32_Witness ==
    /\ result = Outcome("tick", TRUE)
    /\ ticks = 1
    /\ now = StartTime
    /\ systemData.error # 0
    /\ systemData.pid.previousError = systemData.error
    /\ pidOutput.computed = systemData.pid.kp * systemData.error * MsPerSecond

\* C33: in every reachable state isRunning implies isConnected: no sequence
\* of startSystem, stopSystem, emergencyStop, setTargetAngle, resetSystem,
\* calibrate and ticks reaches a state that is running and not connected.
C33_RunningIsConnected == systemData.isRunning => systemData.isConnected

\* C33 witness: the system runs, connected, after a restart that followed an
\* earlier run.
C33_Witness ==
    /\ result = Outcome("startSystem", TRUE)
    /\ ticks > 0
    /\ systemData.isRunning
    /\ systemData.isConnected

\* C34: after an emergencyStop isConnected stays false until a startSystem
\* or calibrate takes effect, and a calibrate that was already waiting when
\* the emergencyStop ran does not set isConnected back to true when it
\* completes.
C34_StaleCalibrateIgnored ==
    [][ /\ (~systemData.isConnected /\ systemData'.isConnected) =>
              result'.op \in {"startSystem", "calibrate"}
        /\ (result = Outcome("emergencyStop", TRUE) /\ result'.op = "calibrate") =>
              \A c \in pending : CalibrateDone(c) => ~systemData'.isConnected
      ]_vars

\* The parts of a command's result the two implementations are compared on.
Compared(r) ==
    <<r.ok, r.sys.isRunning, r.sys.isConnected, r.sys.currentAngle,
      r.sys.referenceAngle, r.sys.error, r.sys.pid.integral,
      r.sys.pid.previousError, r.hist>>

\* C35: the two implementations of the command state machine agree: in
\* every state reached from the initial state, Server.executeCommand and
\* SystemController.executeCommand give each of startSystem, stopSystem,
\* emergencyStop, setTargetAngle and resetSystem the same success or failure
\* and the same resulting isRunning, isConnected, currentAngle,
\* referenceAngle, error, pid.integral, pid.previousError and history.
C35_ImplementationsAgree ==
    \A command \in LockstepCommands :
       \A value \in LockstepValues(command) :
          Compared(ServerExecuteCommand(systemData, dataHistory, command, value))
             = Compared(ControllerExecuteCommand(systemData, dataHistory, command, value))

\* C36: the pidOutput a tick reports (updateSimulation's pidOutput.total)
\* equals the control output applyPIDControl computed on that same tick,
\* derivative component included.
C36_ReportedIsComputed ==
    (impl = "SystemController" /\ result = Outcome("tick", TRUE)) =>
        pidOutput.reported.total = pidOutput.computed

\* C37: the dt of an executed tick is the time elapsed since the previous
\* executed tick, or since construction: only an executed tick writes
\* lastUpdateTime, so a tick skipped while stopped does not advance it and
\* startSystem does not reset it, and the first tick after a start
\* integrates the error over the whole time the system spent stopped.
C37_DtSinceLastExecutedTick ==
    [][ /\ lastUpdateTime' # lastUpdateTime => ticks' # ticks
        /\ result'.op \in {"tickSkipped", "startSystem"} =>
              lastUpdateTime' = lastUpdateTime
        /\ ticks' # ticks =>
              /\ lastUpdateTime' = now
              /\ systemData'.pid.integral =
                    clampIntegral(systemData.pid.integral
                                     + systemData'.error * (now - lastUpdateTime))
              /\ systemData'.stats.uptime = now - StartTime
      ]_vars

\* C37 witness: the first tick ran one period after construction; the system
\* was then stopped and started again while the clock moved on, and the
\* second executed tick integrated its error over all of the time since the
\* first, without reaching the limit.
C37_Witness ==
    /\ result = Outcome("tick", TRUE)
    /\ ticks = 2
    /\ Len(dataHistory.times) = 2
    /\ dataHistory.times[1] > StartTime
    /\ dataHistory.times[2] - dataHistory.times[1] > UpdateInterval
    /\ systemData.pid.integral = systemData.error * (dataHistory.times[2] - dataHistory.times[1])
    /\ systemData.pid.integral > -IntegralLimit * MsPerSecond
    /\ systemData.pid.integral < 0

\* C38: resetSystem leaves isConnected, the gains kp, ki, kd and stats as
\* they were: right after a reset the history is empty while stats still
\* hold the values computed from the window that was cleared, and while the
\* history is empty nothing but an executed tick changes stats.
C38_ResetKeepsStats ==
    [][ /\ Called("resetSystem") =>
              /\ result'.ok
              /\ dataHistory' = EmptyHistory
              /\ systemData'.isConnected = systemData.isConnected
              /\ PidGains(systemData') = PidGains(systemData)
              /\ systemData'.stats = systemData.stats
        /\ (dataHistory = EmptyHistory /\ systemData'.stats # systemData.stats) =>
              ticks' # ticks
      ]_vars

\* C38 witness: a reset has emptied the history of a connected system whose
\* gains had been changed, and stats still show the angle of the tick that
\* ran before it.
C38_Witness ==
    /\ result = Outcome("resetSystem", TRUE)
    /\ dataHistory = EmptyHistory
    /\ ticks > 0
    /\ systemData.isConnected
    /\ systemData.pid.kp # InitialPid.kp
    /\ systemData.stats.minAngle # 0
    /\ systemData.stats.minAngle = systemData.stats.maxAngle

\* The fields of a statistics record.
StatsFields == {"avgAngle", "stdAngle", "minAngle", "maxAngle", "uptime", "dataPoints"}

\* C39: getSystemStats returns a statistics record (avgAngle, stdAngle,
\* minAngle, maxAngle, uptime, dataPoints) in every state, whether the
\* history is empty or not.
C39_StatsReturned ==
    result.op = "getSystemStats" =>
        /\ result.value.defined
        /\ StatsFields \subseteq DOMAIN result.value.stats

====
